---- MODULE Spec2Model ----
(***************************************************************************)
(* Employee lifecycle and authorization envelope of the casesnap backend.  *)
(* Every action is one HTTP request travelling through the Express router  *)
(* of routes/employeeRoutes.js (or routes/auth.js), the protect and        *)
(* authorize middleware, and the controller it is dispatched to.           *)
(*                                                                         *)
(* Time is counted in invitation periods: one clock unit is the 7 days of  *)
(* an invitation's validity.  A session token lives 30 days, longer than   *)
(* the clock runs, so session tokens do not expire inside the model.       *)
(***************************************************************************)
EXTENDS Integers, Sequences, FiniteSets, TLC

\* ------------------------------------------------------------------ bounds
MaxTime   == 3      \* the clock runs 0..MaxTime
MaxSecret == 2      \* invitation secrets that can be drawn
MaxHist   == 2      \* statusHistory entries per employee

\* ------------------------------------------------------- program constants
InvitationTTL == 1  \* 7 * 24 * 60 * 60 * 1000 ms, one clock unit

\* ------------------------------------------------------------ value spaces
Orgs      == {1, 2}
AdminIds  == {101, 102}
InviteEmails == {"e1"}             \* addresses that get invited
EmpEmails == InviteEmails \cup {"e2"}  \* addresses a client may present
Passwords == {"pw1", "pw2"}
Phones    == {"ph1", "ph2"}
Reasons   == {"r1"}

NullStr   == "null"      \* null / undefined in a string-valued field
NullDate  == -1          \* null in a Date field
NullId    == 0           \* null in an ObjectId field
NoSecret  == 0           \* invitationToken undefined

validStatuses     == {"pending", "active", "inactive", "terminated"}
InvitationStates  == {"pending", "completed", "expired"}
EmploymentStates  == {"employed", "archived"}

\* The two organizations and their super admins as initializeSetup leaves
\* them: role 'admin', organization linked.
users ==
    [a \in AdminIds |->
        [organization |-> a - 100,
         role         |-> "admin",
         email        |-> IF a = 101 THEN "a1" ELSE "a2",
         password     |-> <<"hash", "pw1">>]]

\* bcrypt: the stored credential is the hash, never the clear text.
Hash(p) == <<"hash", p>>
matchPassword(stored, entered) == stored = Hash(entered)

\* A signed session token (jwt.sign payload).
Jwt(id, org, role) == [id |-> id, organization |-> org, role |-> role]
NoToken == Jwt(0, 0, "none")          \* missing, malformed or badly signed
AdminTokens == {Jwt(a, users[a].organization, "admin") : a \in AdminIds}

VARIABLES
    employees,    \* the Employee collection, in creation order (_id = index)
    issued,       \* session tokens handed out so far
    nextSecret,   \* next value of crypto.randomBytes(32)
    now,          \* the clock
    resp,         \* the response to the last request
    calls,        \* the requests in flight between their find and their save
    organizations,\* the Organization collection
    adminUsers        \* the User collection as initializeSetup reads and writes it

vars == <<employees, issued, nextSecret, now, resp, calls, organizations, adminUsers>>

EmpIds == 1..Len(employees)

\* The unique index on email bounds the collection; ids a client may name.
IdSpace == 1..Cardinality(InviteEmails)

\* --------------------------------------------------------------- responses
\* The response to a request, with what the server knew of the request:
\* the controller the router selected (handler), who answered (by: the
\* protect or authorize middleware, or the controller), the caller protect
\* resolved (user, NullId when none) and the :id the route bound (target).
\* error is the message of an ErrorResponse a claim tells apart (NullStr
\* otherwise); mail is the address the request sent an invitation mail to,
\* mailed what became of that send ("none": no send was tried).
Response(code, by, handler, user, target, token, data) ==
    [code |-> code, by |-> by, handler |-> handler, user |-> user,
     target |-> target, token |-> token, data |-> data,
     error |-> NullStr, mail |-> NullStr, mailed |-> "none"]

\* res.status(code).json(..) in a controller
Respond(code, handler, req, token, data) ==
    resp' = Response(code, "controller", handler, req.user.id, req.id, token, data)

\* An error response: next(new ErrorResponse(..)) through middleware/error.js
Fail(code, handler, req) ==
    /\ Respond(code, handler, req, NoToken, {})
    /\ UNCHANGED <<employees, issued, nextSecret, now>>

\* next(new ErrorResponse(message, code))
ErrorResponse(message, code, handler, req) ==
    /\ resp' = [Response(code, "controller", handler, req.user.id, req.id, NoToken, {})
                   EXCEPT !.error = message]
    /\ UNCHANGED <<employees, issued, nextSecret, now>>

\* A successful read: nothing persisted.
Read(code, handler, req, data) ==
    /\ Respond(code, handler, req, NoToken, data)
    /\ UNCHANGED <<employees, issued, nextSecret, now>>

\* employee.save() / findByIdAndUpdate of one document
Save(id, doc) == employees' = [employees EXCEPT ![id] = doc]

\* ------------------------------------------------------- JavaScript values
\* A JavaScript number: an integer or NaN.
NaN    == [nan |-> TRUE,  n |-> 0]
Num(n) == [nan |-> FALSE, n |-> n]

\* a < b and a > b on JavaScript numbers: false whenever an operand is NaN
Less(a, b)    == ~a.nan /\ ~b.nan /\ a.n < b.n
Greater(a, b) == ~a.nan /\ ~b.nan /\ a.n > b.n

DigitChars == {"0", "1", "2", "3", "4", "5", "6", "7", "8", "9"}
DigitVal(c) ==
    CASE c = "0" -> 0 [] c = "1" -> 1 [] c = "2" -> 2 [] c = "3" -> 3
      [] c = "4" -> 4 [] c = "5" -> 5 [] c = "6" -> 6 [] c = "7" -> 7
      [] c = "8" -> 8 [] c = "9" -> 9

RECURSIVE TrimStart(_)
TrimStart(s) == IF s # << >> /\ Head(s) = " " THEN TrimStart(Tail(s)) ELSE s

RECURSIVE LeadingDigits(_)
LeadingDigits(s) ==
    IF s # << >> /\ Head(s) \in DigitChars
      THEN <<Head(s)>> \o LeadingDigits(Tail(s))
      ELSE << >>

RECURSIVE DigitsValue(_, _)
DigitsValue(s, acc) ==
    IF s = << >> THEN acc ELSE DigitsValue(Tail(s), 10 * acc + DigitVal(Head(s)))

RECURSIVE TrimEnd(_)
TrimEnd(s) ==
    IF s # << >> /\ s[Len(s)] = " " THEN TrimEnd(SubSeq(s, 1, Len(s) - 1)) ELSE s

\* A value of a JSON body: absent, null, a string (its characters), an
\* integer or a boolean.
JsUndefined == [t |-> "undefined", text |-> << >>, n |-> 0, b |-> FALSE]
JsNull      == [t |-> "null",      text |-> << >>, n |-> 0, b |-> FALSE]
JsStr(text) == [t |-> "string",    text |-> text,  n |-> 0, b |-> FALSE]
JsNum(n)    == [t |-> "number",    text |-> << >>, n |-> n, b |-> FALSE]
JsBool(b)   == [t |-> "boolean",   text |-> << >>, n |-> 0, b |-> b]

\* Number(text): blanks trimmed, the empty string is 0, an optionally signed
\* run of decimal digits is its value, anything else NaN.
StringToNumber(text) ==
    LET t      == TrimEnd(TrimStart(text))
        signed == t # << >> /\ Head(t) \in {"-", "+"}
        d      == IF signed THEN Tail(t) ELSE t
    IN  IF t = << >> THEN Num(0)
        ELSE IF d = << >> \/ LeadingDigits(d) # d THEN NaN
        ELSE IF Head(t) = "-" THEN Num(0 - DigitsValue(d, 0))
        ELSE Num(DigitsValue(d, 0))

\* ToNumber, the conversion behind isNaN(v) and v < 0
ToNumber(v) ==
    CASE v.t = "undefined" -> NaN
      [] v.t = "null"      -> Num(0)
      [] v.t = "string"    -> StringToNumber(v.text)
      [] v.t = "number"    -> Num(v.n)
      [] v.t = "boolean"   -> Num(IF v.b THEN 1 ELSE 0)

isNaN(v) == ToNumber(v).nan

\* v || dflt
Truthy(v) ==
    CASE v.t = "undefined" -> FALSE
      [] v.t = "null"      -> FALSE
      [] v.t = "string"    -> v.text # << >>
      [] v.t = "number"    -> v.n # 0
      [] v.t = "boolean"   -> v.b
OrElse(v, dflt) == IF Truthy(v) THEN v ELSE dflt

\* Mongoose's cast of a value to a Number path: strings and booleans through
\* Number(); the values that reach it here are never NaN.
castNumber(v) == ToNumber(v).n

\* ---------------------------------------------------------------- documents
\* Employee.create: the document with the schema defaults of models/Employee.js
NewEmployee(email, org, admin, secret, salary) ==
    [email            |-> email,
     organization     |-> org,
     adminId          |-> admin,
     phone            |-> NullStr,
     emergencyContactName |-> NullStr,
     salary           |-> castNumber(OrElse(salary, JsNum(0))),
     password         |-> <<"none", NullStr>>,
     invitationStatus |-> "pending",
     invitationToken  |-> secret,
     invitationExpires|-> now + InvitationTTL,
     status           |-> "pending",
     employmentStatus |-> "employed",
     archivedAt       |-> NullDate,
     archivedBy       |-> NullId,
     archiveReason    |-> NullStr,
     isDeleted        |-> FALSE,
     deletedAt        |-> NullDate,
     statusHistory    |-> << >>]

\* A history entry with the two statuses the wrong way round.
HistoryEntry_Swapped(from, to, by, reason) ==
    [from |-> to, to |-> from, changedBy |-> by, reason |-> reason]

HistoryEntry(from, to, by, reason) ==
    [from |-> from, to |-> to, changedBy |-> by, reason |-> reason]

\* Employee.findOne({ email, organization })
FindByEmailOrg(email, org) ==
    {i \in EmpIds : employees[i].email = email /\ employees[i].organization = org}

\* The lookup by id with the organization filter forgotten.
FindByIdOrg_AnyTenant(id, org) ==
    {i \in EmpIds : i = id}

\* Employee.findOne({ _id, organization })
FindByIdOrg(id, org) ==
    {i \in EmpIds : i = id /\ employees[i].organization = org}

\* Employee.findOne({ invitationToken, invitationStatus: 'pending' })
FindByInvitationToken(secret) ==
    {i \in EmpIds : /\ secret # NoSecret
                    /\ employees[i].invitationToken = secret
                    /\ employees[i].invitationStatus = "pending"}

\* --------------------------------------------------------------- middleware
\* No caller: a public route, or a token that resolves to nobody.
Anonymous ==
    [ok |-> FALSE, userType |-> "none", id |-> NullId, organization |-> 0, role |-> "none"]

\* models/User.js role: enum ['user', 'admin']
UserRoles == {"user", "admin"}

\* protect over the User collection U: the caller resolved from the Bearer
\* token, or not ok (401).  An employee token is resolved in the Employee
\* collection, any other token in U, and req.user carries the stored role.
protectWith(U, tok) ==
    IF tok = NoToken
      THEN Anonymous
    ELSE IF tok.role = "employee"
      THEN IF tok.id \in EmpIds
             THEN [ok |-> TRUE, userType |-> "employee", id |-> tok.id,
                   organization |-> employees[tok.id].organization, role |-> "none"]
             ELSE Anonymous
    ELSE IF tok.id \in DOMAIN U
      THEN [ok |-> TRUE, userType |-> "admin", id |-> tok.id,
            organization |-> U[tok.id].organization, role |-> U[tok.id].role]
      ELSE Anonymous

\* protect on the stored users
protect(tok) == protectWith(users, tok)

\* A role check that lets every authenticated caller through.
authorize_AnyAuthenticated(roles, user) ==
    user.ok

\* authorize(...roles): employees are judged by userType, admins by user.role
authorize(roles, user) ==
    LET userRole == IF user.userType = "employee" THEN "employee" ELSE user.role
    IN  userRole \in roles

\* ------------------------------------------------------------------- router
\* routes/employeeRoutes.js, in registration order.  roles = {} is a public
\* route (no protect, no authorize).
Route(method, path, roles, handler) ==
    [method |-> method, path |-> path, roles |-> roles, handler |-> handler]

router ==
    << Route("GET",    <<"register", ":token">>,        {},           "getEmployeeByToken"),
       Route("POST",   <<"register", ":token">>,        {},           "completeEmployeeRegistration"),
       Route("POST",   <<"invite">>,                    {"admin"},    "sendEmployeeInvitation"),
       Route("POST",   <<"register">>,                  {"admin"},    "registerEmployee"),
       Route("GET",    << >>,                           {"admin"},    "getEmployees"),
       Route("GET",    <<"status", ":status">>,         {"admin"},    "getEmployeesByStatus"),
       Route("GET",    <<":id">>,                       {"admin"},    "getEmployee"),
       Route("POST",   <<":id", "status">>,             {"admin"},    "updateEmployeeStatus"),
       Route("GET",    <<"admin", "all">>,              {"admin"},    "getEmployeesForAdmin"),
       Route("PUT",    <<"admin", ":id">>,              {"admin"},    "updateEmployeeByAdmin"),
       Route("DELETE", <<"admin", ":id">>,              {"admin"},    "softDeleteEmployeeByAdmin"),
       Route("PUT",    <<"admin", ":id", "restore">>,   {"admin"},    "restoreEmployeeByAdmin"),
       Route("POST",   <<"admin", ":id", "archive">>,   {"admin"},    "archiveEmployeeByAdmin"),
       Route("PUT",    <<"admin", ":id", "unarchive">>, {"admin"},    "unarchiveEmployeeByAdmin"),
       Route("GET",    <<"profile">>,                   {"employee"}, "getEmployeeProfile"),
       Route("PUT",    <<"profile">>,                   {"employee"}, "updateEmployeeProfile"),
       Route("PUT",    <<"profile", "password">>,       {"employee"}, "changeEmployeePassword") >>

\* A request path is a sequence of segments; the segment "$" stands for the
\* parameter value the request carries beside it (an id, a secret, a status).
IsParam(seg) == seg \in {":token", ":id", ":status"}

Matches(route, method, path) ==
    /\ route.method = method
    /\ Len(route.path) = Len(path)
    /\ \A i \in 1..Len(path) : IsParam(route.path[i]) \/ route.path[i] = path[i]

\* Express runs the first registered route that matches.
Dispatch(method, path) ==
    LET hits == {i \in 1..Len(router) : Matches(router[i], method, path)}
    IN  IF hits = {} THEN Route(method, path, {}, "notFound")
        ELSE router[CHOOSE i \in hits : \A j \in hits : i <= j]

\* The route binds an :id.
HasId(route) == \E i \in 1..Len(route.path) : route.path[i] = ":id"

\* The value bound to the route's parameter: the one the request carries, or
\* NullId when a literal segment was captured (not an ObjectId: CastError).
ParamId(route, path, arg) ==
    IF \E i \in 1..Len(path) : IsParam(route.path[i]) /\ path[i] # "$"
      THEN NullId
      ELSE arg


\* ------------------------------------------------- controllers: invitation
\* The messages of sendEmployeeInvitation's error responses.  InvalidInvitation
\* stands for the two validation messages on email and names.
InvalidInvitation     == "Email, first name and last name are required"
InvalidSalary         == "Salary must be a valid positive number"
DataConflict          == "There seems to be a data conflict"
AlreadyRegistered     == "An employee with this email already exists in your organization"
InvitationAlreadySent == "An invitation has already been sent to this email address"
URIMalformed          == "URI malformed"
DuplicateKey          == "An employee with this email already exists"

\* The check on an existing record with pending invitations let through.
existingEmployee_PendingAllowed(e) ==
    IF e.invitationStatus = "completed" THEN AlreadyRegistered
    ELSE NullStr

\* The check on an existing record: the message it is refused with, NullStr
\* when the invitation may go on as a re-invite.
existingEmployee(e) ==
    IF e.invitationStatus = "completed" THEN AlreadyRegistered
    ELSE IF e.invitationStatus = "pending" THEN InvitationAlreadySent
    ELSE NullStr

\* A re-invite that leaves the stored secret in place.
updateFields_KeepSecret(e, req, body, secret) ==
    [e EXCEPT !.email             = body.email,
              !.salary            = castNumber(OrElse(body.salary, JsNum(0))),
              !.adminId           = req.user.id,
              !.invitationExpires = now + InvitationTTL,
              !.invitationStatus  = "pending"]

\* updateFields of a re-invite, written by findByIdAndUpdate (names are not
\* part of the document here).
updateFields(e, req, body, secret) ==
    [e EXCEPT !.email             = body.email,
              !.salary            = castNumber(OrElse(body.salary, JsNum(0))),
              !.adminId           = req.user.id,
              !.invitationToken   = secret,
              !.invitationExpires = now + InvitationTTL,
              !.invitationStatus  = "pending"]

\* utils/emailService.js sendEmployeeInvitation: what the mailer can return.
\* Without an API key it returns { success: false } at once; an error of the
\* send is caught and returned as { success: false }.
MailOutcomes == {"sent", "failed", "unconfigured"}

\* A handler in which a failed or unconfigured send is answered with 500.
InvitationResponse_FailsWithSend(H, req, body, i) ==
    IF ~body.encodable
      THEN resp' = [Response(500, "controller", H, req.user.id, req.id, NoToken, {})
                       EXCEPT !.error = URIMalformed]
    ELSE IF body.mailer # "sent"
      THEN resp' = [Response(500, "controller", H, req.user.id, req.id, NoToken, {})
                       EXCEPT !.mailed = body.mailer]
      ELSE resp' = [Response(201, "controller", H, req.user.id, req.id, NoToken, {i})
                       EXCEPT !.mail = body.email, !.mailed = body.mailer]

\* The handler after the record i is written: the invitation link is built
\* with encodeURIComponent, which throws URIError on a name holding a lone
\* surrogate (body.encodable false); then the mail is sent and, whatever the
\* mailer returns, the answer is 201.
InvitationResponse(H, req, body, i) ==
    IF ~body.encodable
      THEN resp' = [Response(500, "controller", H, req.user.id, req.id, NoToken, {})
                       EXCEPT !.error = URIMalformed]
      ELSE resp' = [Response(201, "controller", H, req.user.id, req.id, NoToken, {i})
                       EXCEPT !.mail = body.email, !.mailed = body.mailer]

\* POST /invite.  body.valid: email and both names present.  body.writeError:
\* the index on which the database refuses the write with E11000, "none" when
\* it accepts it; a refusal on the email index is computed from the records.
\* Every E11000 on the aadharCardNumber index carries the index name in its
\* message, so the catch block answers it in its first branch.  The invitation
\* mail goes out after the record is written.
sendEmployeeInvitation(req, body) ==
    LET H  == "sendEmployeeInvitation"
        ex == FindByEmailOrg(body.email, req.user.organization)
    IN  IF ~body.valid THEN ErrorResponse(InvalidInvitation, 400, H, req)
        ELSE IF /\ body.salary \notin {JsUndefined, JsNull, JsStr(<< >>)}
                /\ (isNaN(body.salary) \/ Less(ToNumber(body.salary), Num(0)))
          THEN ErrorResponse(InvalidSalary, 400, H, req)
        ELSE IF \E i \in ex : existingEmployee(employees[i]) # NullStr
          THEN \E i \in ex : ErrorResponse(existingEmployee(employees[i]), 400, H, req)
        ELSE IF body.writeError = "aadharCardNumber"
          THEN ErrorResponse(DataConflict, 400, H, req)   \* catch: message names the index
        ELSE IF ex # {}
          THEN \E i \in ex :                       \* re-invite: findByIdAndUpdate
                 /\ nextSecret <= MaxSecret
                 /\ Save(i, updateFields(employees[i], req, body, nextSecret))
                 /\ nextSecret' = nextSecret + 1
                 /\ InvitationResponse(H, req, body, i)
                 /\ UNCHANGED <<issued, now>>
        ELSE IF \E i \in EmpIds : employees[i].email = body.email
          THEN ErrorResponse(DuplicateKey, 400, H, req)   \* E11000 on the unique email index
        ELSE /\ nextSecret <= MaxSecret            \* Employee.create
             /\ employees' = Append(employees,
                    NewEmployee(body.email, req.user.organization, req.user.id, nextSecret,
                                body.salary))
             /\ nextSecret' = nextSecret + 1
             /\ InvitationResponse(H, req, body, Len(employees) + 1)
             /\ UNCHANGED <<issued, now>>

\* GET /register/:token.  The presented string is looked up as an invitation
\* secret first and, when that finds nothing, verified as a session token.
getEmployeeByToken(req, arg) ==
    LET H      == "getEmployeeByToken"
        bySec  == FindByInvitationToken(arg.secret)
        byJwt  == IF arg.jwt = NoToken THEN {}
                  ELSE {i \in EmpIds : i = arg.jwt.id
                                       /\ employees[i].invitationStatus = "pending"}
        found  == IF bySec # {} THEN bySec ELSE byJwt
    IN  IF found = {} THEN Fail(400, H, req)
        ELSE \E i \in found :
               IF employees[i].invitationExpires < now
                 THEN /\ Save(i, [employees[i] EXCEPT !.invitationStatus = "expired"])
                      /\ Respond(400, H, req, NoToken, {})
                      /\ UNCHANGED <<issued, nextSecret, now>>
                 ELSE Read(200, H, req, {i})

\* POST /register/:token.  body.valid: phone, address, gender and dateOfBirth
\* present.  Nothing else of the body is read.
completeEmployeeRegistration(req, secret, body) ==
    LET H     == "completeEmployeeRegistration"
        found == FindByInvitationToken(secret)
    IN  IF ~body.valid THEN Fail(400, H, req)
        ELSE IF found = {} THEN Fail(400, H, req)
        ELSE \E i \in found :
               IF employees[i].invitationExpires < now
                 THEN /\ Save(i, [employees[i] EXCEPT !.invitationStatus = "expired"])
                      /\ Respond(400, H, req, NoToken, {})
                      /\ UNCHANGED <<issued, nextSecret, now>>
                 ELSE /\ Save(i, [employees[i] EXCEPT
                                    !.phone            = body.phone,
                                    !.invitationStatus = "completed",
                                    !.invitationToken  = NoSecret])
                      /\ Respond(200, H, req, NoToken, {i})
                      /\ UNCHANGED <<issued, nextSecret, now>>

PasswordMismatch == "Password and confirm password do not match"

AgeMismatch      == "Age does not match the calculated age from date of birth"

\* A calendar date as getFullYear, getMonth and getDate read it.
Date(year, month, day) == [year |-> year, month |-> month, day |-> day]

\* new Date() when the register route is served
Today == Date(30, 2, 2)

\* The age validation of the register route: "ok", or the status it answers.
\* calculatedAge is declared const, so the decrement for a birthday still to
\* come this year throws TypeError, which the error middleware answers 500.
\* The comparison with the supplied age is strict (!==).
ValidateAge(today, birthDate, age) ==
    LET calculatedAge == today.year - birthDate.year
        monthDiff     == today.month - birthDate.month
    IN  IF monthDiff < 0 \/ (monthDiff = 0 /\ today.day < birthDate.day)
          THEN "500"
        ELSE IF age.t # "number" \/ age.n # calculatedAge
          THEN "400"
          ELSE "ok"

\* POST /register (admin route).  body.valid: every required field but age
\* present, salary valid and type-specific fields present.
registerEmployee(req, body) ==
    LET H  == "registerEmployee"
        ex == FindByEmailOrg(body.email, req.user.organization)
        ageCheck == ValidateAge(Today, body.dateOfBirth, body.age)
    IN  IF ~body.valid \/ ~Truthy(body.age) THEN Fail(400, H, req)
        ELSE IF body.password # body.confirmPassword
          THEN ErrorResponse(PasswordMismatch, 400, H, req)
        ELSE IF ageCheck = "500" THEN Fail(500, H, req)
        ELSE IF ageCheck = "400" THEN ErrorResponse(AgeMismatch, 400, H, req)
        ELSE IF ex = {} THEN Fail(400, H, req)
        ELSE \E i \in ex :
               IF employees[i].invitationStatus \in {"completed", "expired"}
                 THEN Fail(400, H, req)
                 ELSE LET token == Jwt(i, employees[i].organization, "employee")
                      IN  /\ Save(i, [employees[i] EXCEPT
                                        !.phone            = body.phone,
                                        !.emergencyContactName = body.emergencyContactName,
                                        !.password         = Hash(body.password),
                                        !.invitationStatus = "completed",
                                        !.status           = "pending",
                                        !.invitationToken  = NoSecret])
                          /\ issued' = issued \cup {token}
                          /\ Respond(201, H, req, token, {i})
                          /\ UNCHANGED <<nextSecret, now>>


\* ---------------------------------------------------- controllers: reading
\* .select(..) on the query whose documents a handler returns: the paths
\* left out of the response.  The schema itself hides no path.
select(handler) ==
    CASE handler \in {"getEmployees", "getEmployee"} -> {"invitationToken"}
      [] handler \in {"getEmployeesByStatus", "getEmployeesForAdmin",
                      "updateEmployeeByAdmin"}      -> {"password", "invitationToken"}

\* The secrets of a document that res.json writes out under a projection.
Disclosed(e, excluded) ==
    {f \in {"password", "invitationToken"} \ excluded :
        \/ f = "password" /\ e.password[1] = "hash"
        \/ f = "invitationToken" /\ e.invitationToken # NoSecret}

\* GET /
getEmployees(req) ==
    Read(200, "getEmployees", req,
         {i \in EmpIds : employees[i].organization = req.user.organization})

\* GET /:id
getEmployee(req) ==
    IF FindByIdOrg(req.id, req.user.organization) = {}
      THEN Fail(404, "getEmployee", req)
      ELSE Read(200, "getEmployee", req, {req.id})

\* GET /status/:status
getEmployeesByStatus(req, status) ==
    IF status \notin validStatuses
      THEN Fail(400, "getEmployeesByStatus", req)
      ELSE Read(200, "getEmployeesByStatus", req,
                {i \in EmpIds : /\ employees[i].organization = req.user.organization
                                /\ employees[i].status = status})

\* ------------------------------------------------ GET /admin/all: the query
\* A query-string parameter: absent, or the text given as its characters.
Absent      == [given |-> FALSE, text |-> << >>]
Given(text) == [given |-> TRUE,  text |-> text]

\* const { p = dflt } = req.query : the default replaces undefined only
OrDefault(p, dflt) == IF p.given THEN p.text ELSE dflt

\* parseInt(text): leading blanks skipped, an optional sign, then the longest
\* run of decimal digits; NaN when there is no digit there.
parseInt(text) ==
    LET t      == TrimStart(text)
        signed == t # << >> /\ Head(t) \in {"-", "+"}
        d      == LeadingDigits(IF signed THEN Tail(t) ELSE t)
    IN  IF d = << >> THEN NaN
        ELSE IF signed /\ Head(t) = "-" THEN Num(0 - DigitsValue(d, 0))
        ELSE Num(DigitsValue(d, 0))

validSortFields ==
    {"createdAt", "updatedAt", "firstName", "lastName", "email", "salary", "status"}
validSortOrders == {"asc", "desc"}

pageNum(query)  == parseInt(OrDefault(query.page,  <<"1">>))
limitNum(query) == parseInt(OrDefault(query.limit, <<"1", "0">>))

\* the filter handed to countDocuments and find
adminQuery_IgnoreFlags(req, query, i) ==
    /\ employees[i].organization = req.user.organization
    /\ (query.status # NullStr => employees[i].status = query.status)
adminQuery(req, query, i) ==
    /\ employees[i].organization = req.user.organization
    /\ (query.includeDeleted # "true" => employees[i].isDeleted = FALSE)
    /\ (query.includeArchived # "true" => employees[i].employmentStatus = "employed")
    /\ (query.status # NullStr => employees[i].status = query.status)

\* .sort({createdAt: ..}).skip(skip).limit(limit) over the matching ids:
\* creation order is the order of the ids
RECURSIVE Ascending(_)
Ascending(S) ==
    IF S = {} THEN << >>
    ELSE LET m == CHOOSE x \in S : \A y \in S : x <= y
         IN  <<m>> \o Ascending(S \ {m})
RECURSIVE Reverse(_)
Reverse(s) == IF s = << >> THEN << >> ELSE Reverse(Tail(s)) \o <<Head(s)>>
PageOf(S, sortOrder, skip, limit) ==
    LET sorted == IF sortOrder = "desc" THEN Reverse(Ascending(S)) ELSE Ascending(S)
    IN  {sorted[k] : k \in {k \in 1..Len(sorted) : skip < k /\ k <= skip + limit}}

\* GET /admin/all.  query.status = NullStr when no status filter is given;
\* sortBy and sortOrder carry their defaults when absent.  The records are
\* sorted by createdAt whenever the sort field is accepted.  With a NaN page
\* or limit the skip/limit handed to the driver is NaN: the request then
\* either fails in the database layer or is answered unpaged.
getEmployeesForAdmin(req, query) ==
    LET H        == "getEmployeesForAdmin"
        matching == {i \in EmpIds : adminQuery(req, query, i)}
    IN  IF Less(pageNum(query), Num(1)) THEN Fail(400, H, req)
        ELSE IF Less(limitNum(query), Num(1)) \/ Greater(limitNum(query), Num(100))
          THEN Fail(400, H, req)
        ELSE IF query.sortBy \notin validSortFields THEN Fail(400, H, req)
        ELSE IF query.sortOrder \notin validSortOrders THEN Fail(400, H, req)
        ELSE IF query.status # NullStr /\ query.status \notin validStatuses
          THEN Fail(400, H, req)
        ELSE IF pageNum(query).nan \/ limitNum(query).nan
          THEN \E outcome \in {200, 500} :
                 IF outcome = 500 THEN Fail(500, H, req)
                                  ELSE Read(200, H, req, matching)
        ELSE Read(200, H, req,
                  PageOf(matching, query.sortOrder,
                         (pageNum(query).n - 1) * limitNum(query).n,
                         limitNum(query).n))

\* ------------------------------------------- controllers: admin lifecycle
\* POST /:id/status
updateEmployeeStatus(req, body) ==
    LET H == "updateEmployeeStatus"
    IN  IF body.status \notin validStatuses THEN Fail(400, H, req)
        ELSE IF FindByIdOrg(req.id, req.user.organization) = {} THEN Fail(404, H, req)
        ELSE LET e == employees[req.id]
             IN  /\ Len(e.statusHistory) < MaxHist
                 /\ Save(req.id, [e EXCEPT
                        !.status = body.status,
                        !.statusHistory = Append(e.statusHistory,
                            HistoryEntry(e.status, body.status, req.user.id, body.reason))])
                 /\ Respond(200, H, req, NoToken, {req.id})
                 /\ UNCHANGED <<issued, nextSecret, now>>

\* The fields an admin update body may carry here, and the values tried.
UpdateFields ==
    {"phone", "status", "employmentStatus", "organization", "invitationStatus",
     "statusHistory"}

UpdateValues(field) ==
    CASE field = "phone"            -> Phones
      [] field = "status"           -> validStatuses
      [] field = "employmentStatus" -> EmploymentStates
      [] field = "organization"     -> Orgs
      [] field = "invitationStatus" -> InvitationStates
      [] field = "statusHistory"    -> {<< >>}

\* findByIdAndUpdate(id, updateData): every path of the body is written.
ApplyUpdate(e, field, value) ==
    CASE field = "phone"            -> [e EXCEPT !.phone = value]
      [] field = "status"           -> [e EXCEPT !.status = value]
      [] field = "employmentStatus" -> [e EXCEPT !.employmentStatus = value]
      [] field = "organization"     -> [e EXCEPT !.organization = value]
      [] field = "invitationStatus" -> [e EXCEPT !.invitationStatus = value]
      [] field = "statusHistory"    -> [e EXCEPT !.statusHistory = value]
      [] field = "emergencyContactName" -> [e EXCEPT !.emergencyContactName = value]

\* findByIdAndUpdate(id, data) for a body of several paths
RECURSIVE ApplyAll(_, _)
ApplyAll(e, data) ==
    IF DOMAIN data = {} THEN e
    ELSE LET k == CHOOSE k \in DOMAIN data : TRUE
         IN  ApplyAll(ApplyUpdate(e, k, data[k]), [j \in DOMAIN data \ {k} |-> data[j]])

\* PUT /admin/:id.  body.typeOk: an employeeType in the body comes with its
\* licence number / intern year.
updateEmployeeByAdmin(req, body) ==
    LET H     == "updateEmployeeByAdmin"
        found == {i \in FindByIdOrg(req.id, req.user.organization) : employees[i].isDeleted = FALSE}
    IN  IF found = {} THEN Fail(404, H, req)
        ELSE IF ~body.typeOk THEN Fail(400, H, req)
        ELSE /\ Save(req.id, ApplyUpdate(employees[req.id], body.field, body.value))
             /\ Respond(200, H, req, NoToken, {req.id})
             /\ UNCHANGED <<issued, nextSecret, now>>

\* DELETE /admin/:id
softDeleteEmployeeByAdmin(req) ==
    LET H     == "softDeleteEmployeeByAdmin"
        found == {i \in FindByIdOrg(req.id, req.user.organization) : employees[i].isDeleted = FALSE}
    IN  IF found = {} THEN Fail(404, H, req)
        ELSE /\ Save(req.id, [employees[req.id] EXCEPT
                    !.isDeleted = TRUE, !.deletedAt = now, !.status = "terminated"])
             /\ Respond(200, H, req, NoToken, {req.id})
             /\ UNCHANGED <<issued, nextSecret, now>>

\* A restore that does not ask for the record to be deleted.
restoreEmployeeByAdmin_AnyRecord(req) ==
    LET H     == "restoreEmployeeByAdmin"
        found == FindByIdOrg(req.id, req.user.organization)
    IN  IF found = {} THEN Fail(404, H, req)
        ELSE /\ Save(req.id, [employees[req.id] EXCEPT
                    !.isDeleted = FALSE, !.deletedAt = NullDate, !.status = "pending"])
             /\ Respond(200, H, req, NoToken, {req.id})
             /\ UNCHANGED <<issued, nextSecret, now>>

\* PUT /admin/:id/restore
restoreEmployeeByAdmin(req) ==
    LET H     == "restoreEmployeeByAdmin"
        found == {i \in FindByIdOrg(req.id, req.user.organization) : employees[i].isDeleted = TRUE}
    IN  IF found = {} THEN Fail(404, H, req)
        ELSE /\ Save(req.id, [employees[req.id] EXCEPT
                    !.isDeleted = FALSE, !.deletedAt = NullDate, !.status = "pending"])
             /\ Respond(200, H, req, NoToken, {req.id})
             /\ UNCHANGED <<issued, nextSecret, now>>

AlreadyArchived == "Employee is already archived"

\* An archive that does not look at the record's employmentStatus.
archiveEmployeeByAdmin_NoArchivedCheck(req, body) ==
    LET H     == "archiveEmployeeByAdmin"
        found == {i \in FindByIdOrg(req.id, req.user.organization) : employees[i].isDeleted = FALSE}
    IN  IF found = {} THEN Fail(404, H, req)
        ELSE LET e == employees[req.id]
             IN  /\ Len(e.statusHistory) < MaxHist
                 /\ Save(req.id, [e EXCEPT
                        !.employmentStatus = "archived",
                        !.archivedAt       = now,
                        !.archivedBy       = req.user.id,
                        !.archiveReason    = IF body.reason = NullStr
                                               THEN "No reason provided" ELSE body.reason,
                        !.status           = "terminated",
                        !.statusHistory    = Append(e.statusHistory,
                            HistoryEntry(e.status, "terminated", req.user.id, "Archived by admin"))])
                 /\ Respond(200, H, req, NoToken, {req.id})
                 /\ UNCHANGED <<issued, nextSecret, now>>

\* POST /admin/:id/archive.  body.reason = NullStr when no reason is given.
archiveEmployeeByAdmin(req, body) ==
    LET H     == "archiveEmployeeByAdmin"
        found == {i \in FindByIdOrg(req.id, req.user.organization) : employees[i].isDeleted = FALSE}
    IN  IF found = {} THEN Fail(404, H, req)
        ELSE IF employees[req.id].employmentStatus = "archived"
          THEN ErrorResponse(AlreadyArchived, 400, H, req)
        ELSE LET e == employees[req.id]
             IN  /\ Len(e.statusHistory) < MaxHist
                 /\ Save(req.id, [e EXCEPT
                        !.employmentStatus = "archived",
                        !.archivedAt       = now,
                        !.archivedBy       = req.user.id,
                        !.archiveReason    = IF body.reason = NullStr
                                               THEN "No reason provided" ELSE body.reason,
                        !.status           = "terminated",
                        !.statusHistory    = Append(e.statusHistory,
                            HistoryEntry(e.status, "terminated", req.user.id, "Archived by admin"))])
                 /\ Respond(200, H, req, NoToken, {req.id})
                 /\ UNCHANGED <<issued, nextSecret, now>>

\* An unarchive that gives the record back the status it had when archived.
unarchiveEmployeeByAdmin_RestoreStatus(req) ==
    LET H     == "unarchiveEmployeeByAdmin"
        found == {i \in FindByIdOrg(req.id, req.user.organization) :
                     /\ employees[i].employmentStatus = "archived"
                     /\ employees[i].isDeleted = FALSE}
    IN  IF found = {} THEN Fail(404, H, req)
        ELSE LET e    == employees[req.id]
                 back == IF e.statusHistory = << >> THEN "pending"
                         ELSE e.statusHistory[Len(e.statusHistory)].from
             IN  /\ Len(e.statusHistory) < MaxHist
                 /\ Save(req.id, [e EXCEPT
                        !.employmentStatus = "employed",
                        !.status           = back,
                        !.archivedAt       = NullDate,
                        !.archivedBy       = NullId,
                        !.archiveReason    = NullStr,
                        !.statusHistory    = Append(e.statusHistory,
                            HistoryEntry("terminated", back, req.user.id, "Unarchived by admin"))])
                 /\ Respond(200, H, req, NoToken, {req.id})
                 /\ UNCHANGED <<issued, nextSecret, now>>

\* PUT /admin/:id/unarchive
unarchiveEmployeeByAdmin(req) ==
    LET H     == "unarchiveEmployeeByAdmin"
        found == {i \in FindByIdOrg(req.id, req.user.organization) :
                     /\ employees[i].employmentStatus = "archived"
                     /\ employees[i].isDeleted = FALSE}
    IN  IF found = {} THEN Fail(404, H, req)
        ELSE LET e == employees[req.id]
             IN  /\ Len(e.statusHistory) < MaxHist
                 /\ Save(req.id, [e EXCEPT
                        !.employmentStatus = "employed",
                        !.status           = "pending",
                        !.archivedAt       = NullDate,
                        !.archivedBy       = NullId,
                        !.archiveReason    = NullStr,
                        !.statusHistory    = Append(e.statusHistory,
                            HistoryEntry("terminated", "pending", req.user.id, "Unarchived by admin"))])
                 /\ Respond(200, H, req, NoToken, {req.id})
                 /\ UNCHANGED <<issued, nextSecret, now>>

\* --------------------------------------------- controllers: employee self
\* GET /profile
getEmployeeProfile(req) ==
    LET H == "getEmployeeProfile"
    IN  IF req.user.id \notin EmpIds THEN Fail(404, H, req)
        ELSE IF employees[req.user.id].isDeleted THEN Fail(403, H, req)
        ELSE Read(200, H, req, {req.user.id})

\* The fields an employee may update on the own profile
allowedFields ==
    {"phone", "address", "emergencyContactName", "emergencyContactPhone",
     "emergencyContactRelation"}

\* The whole body taken as the update.
filteredUpdateData_Unfiltered(updateData) == updateData

\* The body restricted to the allowed fields
filteredUpdateData(updateData) ==
    [k \in DOMAIN updateData \cap allowedFields |-> updateData[k]]

\* PUT /profile.  body.data: the body, field by field; body.valid: an
\* emergency contact phone, when given, has ten digits.
updateEmployeeProfile(req, body) ==
    LET H == "updateEmployeeProfile"
    IN  IF req.user.id \notin EmpIds THEN Fail(404, H, req)
        ELSE IF employees[req.user.id].isDeleted THEN Fail(403, H, req)
        ELSE IF ~body.valid THEN Fail(400, H, req)
        ELSE /\ Save(req.user.id,
                     ApplyAll(employees[req.user.id], filteredUpdateData(body.data)))
             /\ Respond(200, H, req, NoToken, {req.user.id})
             /\ UNCHANGED <<issued, nextSecret, now>>

\* PUT /profile/password.  body.valid: both passwords present and the new one
\* long enough.  bcrypt.compare throws on a document without a credential.
changeEmployeePassword(req, body) ==
    LET H == "changeEmployeePassword"
    IN  IF ~body.valid THEN Fail(400, H, req)
        ELSE IF req.user.id \notin EmpIds THEN Fail(404, H, req)
        ELSE IF employees[req.user.id].isDeleted THEN Fail(403, H, req)
        ELSE IF employees[req.user.id].password[1] = "none" THEN Fail(500, H, req)
        ELSE IF ~matchPassword(employees[req.user.id].password, body.currentPassword)
          THEN Fail(400, H, req)
        ELSE /\ Save(req.user.id, [employees[req.user.id] EXCEPT
                                 !.password = Hash(body.newPassword)])
             /\ Respond(200, H, req, NoToken, {})
             /\ UNCHANGED <<issued, nextSecret, now>>

\* ------------------------------------------------------- controllers: auth
\* POST /api/auth/login: the admin store is tried first, then the employees.
login(req, body) ==
    LET H      == "login"
        admins == {a \in AdminIds : users[a].email = body.email}
        emps   == {i \in EmpIds : employees[i].email = body.email}
    IN  IF admins # {}
          THEN \E a \in admins :
                 IF ~matchPassword(users[a].password, body.password)
                   THEN Fail(401, H, req)
                   ELSE LET token == Jwt(a, users[a].organization, "admin")
                        IN  /\ issued' = issued \cup {token}
                            /\ Respond(200, H, req, token, {})
                            /\ UNCHANGED <<employees, nextSecret, now>>
        ELSE IF emps = {} THEN Fail(401, H, req)
        ELSE \E i \in emps :
               IF employees[i].password[1] = "none" THEN Fail(500, H, req)
               ELSE IF ~matchPassword(employees[i].password, body.password)
                 THEN Fail(401, H, req)
               ELSE IF employees[i].status # "active" THEN Fail(401, H, req)
               ELSE LET token == Jwt(i, employees[i].organization, "employee")
                    IN  /\ issued' = issued \cup {token}
                        /\ Respond(200, H, req, token, {i})
                        /\ UNCHANGED <<employees, nextSecret, now>>


\* ---------------------------------------------------------------- serving
\* The controller a route names, run on the request.
Handler(name, req, arg, body) ==
    CASE name = "getEmployeeByToken"           -> getEmployeeByToken(req, arg)
      [] name = "completeEmployeeRegistration" -> completeEmployeeRegistration(req, arg, body)
      [] name = "sendEmployeeInvitation"       -> sendEmployeeInvitation(req, body)
      [] name = "registerEmployee"             -> registerEmployee(req, body)
      [] name = "getEmployees"                 -> getEmployees(req)
      [] name = "getEmployeesByStatus"         -> getEmployeesByStatus(req, arg)
      [] name = "getEmployee"                  -> getEmployee(req)
      [] name = "updateEmployeeStatus"         -> updateEmployeeStatus(req, body)
      [] name = "getEmployeesForAdmin"         -> getEmployeesForAdmin(req, body)
      [] name = "updateEmployeeByAdmin"        -> updateEmployeeByAdmin(req, body)
      [] name = "softDeleteEmployeeByAdmin"    -> softDeleteEmployeeByAdmin(req)
      [] name = "restoreEmployeeByAdmin"       -> restoreEmployeeByAdmin(req)
      [] name = "archiveEmployeeByAdmin"       -> archiveEmployeeByAdmin(req, body)
      [] name = "unarchiveEmployeeByAdmin"     -> unarchiveEmployeeByAdmin(req)
      [] name = "getEmployeeProfile"           -> getEmployeeProfile(req)
      [] name = "updateEmployeeProfile"        -> updateEmployeeProfile(req, body)
      [] name = "changeEmployeePassword"       -> changeEmployeePassword(req, body)

\* A middleware ends the request with an error.
Reject(code, by, handler, user, target) ==
    /\ resp' = Response(code, by, handler, user, target, NoToken, {})
    /\ UNCHANGED <<employees, issued, nextSecret, now>>

\* One request to /api/employees: route, then protect, then authorize, then
\* the controller.  Public routes run the controller at once.
Serve(method, path, tok, arg, body) ==
    LET route  == Dispatch(method, path)
        public == route.roles = {}
        user   == IF public THEN Anonymous ELSE protect(tok)
        target == IF HasId(route) THEN ParamId(route, path, arg) ELSE NullId
        req    == [user |-> user, id |-> target]
    IN  /\ calls' = calls
        /\ UNCHANGED <<organizations, adminUsers>>
        /\ IF route.handler = "notFound"
             THEN Reject(404, "router", "notFound", NullId, NullId)
           ELSE IF ~public /\ ~user.ok
             THEN Reject(401, "protect", route.handler, NullId, target)
           ELSE IF ~public /\ ~authorize(route.roles, user)
             THEN Reject(403, "authorize", route.handler, user.id, target)
           ELSE Handler(route.handler, req, arg, body)

\* What a client can put in the Authorization header.
Tokens == issued \cup {NoToken}

\* ----------------------------------------------------------------- requests
\* A request is parameterised by the set T of Authorization headers its
\* sender may use and, where it matters, by the set of bodies tried.
\* E: the addresses invited; S: the salaries the body carries; W: the
\* refusals of the write by the database; N: whether the names can be
\* percent-encoded; M: what the mailer returns
PostInviteNamed(T, E, S, W, N, M) ==
    \E tok \in T, email \in E, valid \in BOOLEAN, salary \in S, w \in W,
       encodable \in N, mailer \in M :
        Serve("POST", <<"invite">>, tok, NullId,
              [email |-> email, valid |-> valid, salary |-> salary, writeError |-> w,
               encodable |-> encodable, mailer |-> mailer])

PostInviteOn(T, E, S, W) == PostInviteNamed(T, E, S, W, {TRUE}, {"sent"})

PostInviteWith(T, E, S) == PostInviteOn(T, E, S, {"none"})

PostInviteAs(T, E) == PostInviteWith(T, E, {JsUndefined})

PostInvite(T) == PostInviteAs(T, InviteEmails)

GetRegisterToken ==
    \/ \E s \in 1..MaxSecret :
        Serve("GET", <<"register", "$">>, NoToken, [secret |-> s, jwt |-> NoToken], NullId)
    \/ \E t \in issued :
        Serve("GET", <<"register", "$">>, NoToken, [secret |-> NoSecret, jwt |-> t], NullId)

\* C: the confirmPassword values sent beside the password
PostRegisterToken(C) ==
    \E s \in 1..MaxSecret, valid \in BOOLEAN, confirm \in C :
        Serve("POST", <<"register", "$">>, NoToken, s,
              [phone |-> "ph1", password |-> "pw1", confirmPassword |-> confirm,
               valid |-> valid])

\* B: the dates of birth sent; A: the ages sent beside them
PostRegisterBorn(T, C, B, A) ==
    \E tok \in T, email \in EmpEmails, valid \in BOOLEAN, confirm \in C,
       birth \in B, age \in A :
        Serve("POST", <<"register">>, tok, NullId,
              [email |-> email, phone |-> "ph1", emergencyContactName |-> "ec1",
               password |-> "pw1", confirmPassword |-> confirm, valid |-> valid,
               dateOfBirth |-> birth, age |-> age])

\* Born on today's day and month 20 years ago, and aged 20.
PostRegister(T, C) == PostRegisterBorn(T, C, {Date(10, 2, 2)}, {JsNum(20)})

GetList(T) ==
    \E tok \in T : Serve("GET", << >>, tok, NullId, NullId)

GetByStatus(T) ==
    \E tok \in T, st \in {"active", "bogus"} :
        Serve("GET", <<"status", "$">>, tok, st, NullId)

GetById(T) ==
    \E tok \in T, id \in IdSpace :
        Serve("GET", <<"$">>, tok, id, NullId)

\* S: the status values posted
PostStatus(T, S) ==
    \E tok \in T, id \in IdSpace, st \in S :
        Serve("POST", <<"$", "status">>, tok, id, [status |-> st, reason |-> NullStr])

\* The query of a plain GET /admin/all
DefaultQuery ==
    [page |-> Absent, limit |-> Absent, sortBy |-> "createdAt", sortOrder |-> "desc",
     includeDeleted |-> NullStr, includeArchived |-> NullStr, status |-> NullStr]

\* Q: the queries sent
GetAdminAllWith(T, Q) ==
    \E tok \in T, q \in Q :
        Serve("GET", <<"admin", "all">>, tok, NullId, q)

GetAdminAll(T) ==
    GetAdminAllWith(T, {DefaultQuery,
                        [DefaultQuery EXCEPT !.includeDeleted = "true", !.includeArchived = "true"],
                        [DefaultQuery EXCEPT !.status = "bogus"],
                        [DefaultQuery EXCEPT !.page = Given(<<"0">>)]})

\* F: the fields the update body may name
PutAdmin(T, F) ==
    \E tok \in T, id \in IdSpace, f \in F, typeOk \in BOOLEAN :
        \E v \in UpdateValues(f) :
            Serve("PUT", <<"admin", "$">>, tok, id,
                  [field |-> f, value |-> v, typeOk |-> typeOk])

\* I: the ids named
DeleteAdminOn(T, I) ==
    \E tok \in T, id \in I :
        Serve("DELETE", <<"admin", "$">>, tok, id, NullId)

DeleteAdmin(T) == DeleteAdminOn(T, IdSpace)

PutRestore(T) ==
    \E tok \in T, id \in IdSpace :
        Serve("PUT", <<"admin", "$", "restore">>, tok, id, NullId)

\* R: the archive reasons posted (NullStr: none)
PostArchiveOn(T, I, R) ==
    \E tok \in T, id \in I, reason \in R :
        Serve("POST", <<"admin", "$", "archive">>, tok, id, [reason |-> reason])

PostArchive(T, R) == PostArchiveOn(T, IdSpace, R)

PutUnarchive(T) ==
    \E tok \in T, id \in IdSpace :
        Serve("PUT", <<"admin", "$", "unarchive">>, tok, id, NullId)

GetProfile(T) ==
    \E tok \in T : Serve("GET", <<"profile">>, tok, NullId, NullId)

\* D: the bodies sent
PutProfileWith(T, D) ==
    \E tok \in T, data \in D, valid \in BOOLEAN :
        Serve("PUT", <<"profile">>, tok, NullId, [data |-> data, valid |-> valid])

PutProfile(T) == PutProfileWith(T, {[phone |-> "ph2"]})

PutProfilePassword(T) ==
    \E tok \in T, cur \in Passwords, valid \in BOOLEAN :
        Serve("PUT", <<"profile", "password">>, tok, NullId,
              [currentPassword |-> cur, newPassword |-> "pw2", valid |-> valid])

PostLogin ==
    /\ calls' = calls
    /\ UNCHANGED <<organizations, adminUsers>>
    /\ \E email \in EmpEmails \cup {users[a].email : a \in AdminIds}, pw \in Passwords :
          login([user |-> Anonymous, id |-> NullId], [email |-> email, password |-> pw])

\* The clock advances.
Tick ==
    /\ now < MaxTime
    /\ now' = now + 1
    /\ UNCHANGED <<employees, issued, nextSecret, resp, calls, organizations, adminUsers>>

\* ------------------------------------------------------------------ setup
\* POST /api/setup/initialize.  An Organization document and a User document
\* with role 'admin'; superAdmin is NullId until the linking save.
Organization(id, companyName, superAdmin) ==
    [id |-> id, companyName |-> companyName, superAdmin |-> superAdmin]
User(id, email, org) ==
    [id |-> id, email |-> email, organization |-> org, role |-> "admin"]

\* The names of the two organizations that exist from the start.
CompanyOf(o) == IF o = 1 THEN "c1" ELSE "c2"

\* The company names and admin addresses a setup request may carry.
SetupNames  == {"c1", "n1", "n2", "n3"}
SetupEmails == {"a1", "s1", "s2"}

\* Where the database refuses: Organization.create, User.create, User.create
\* and then the findByIdAndDelete of the catch block, or organization.save().
SetupFailures == {"none", "organization", "superAdmin", "superAdminAndDelete", "link"}

\* Fresh _id values.
NewOrgId  == 1 + Cardinality(organizations)
NewUserId == 101 + Cardinality(adminUsers)

SetupAnswer(code) ==
    resp' = Response(code, "controller", "initializeSetup", NullId, NullId, NoToken, {})

\* body.match: password equals confirmPassword.  failure: the step at which
\* the database refuses the write.
initializeSetup(body, failure) ==
    LET org   == Organization(NewOrgId, body.companyName, NullId)
        admin == User(NewUserId, body.email, org.id)
    IN  IF \E a \in adminUsers : a.email = body.email /\ a.role = "admin"
          THEN SetupAnswer(400) /\ UNCHANGED <<organizations, adminUsers>>
        ELSE IF \E o \in organizations : o.companyName = body.companyName
          THEN SetupAnswer(400) /\ UNCHANGED <<organizations, adminUsers>>
        ELSE IF ~body.match
          THEN SetupAnswer(400) /\ UNCHANGED <<organizations, adminUsers>>
        ELSE IF failure = "organization"        \* Organization.create throws
          THEN SetupAnswer(500) /\ UNCHANGED <<organizations, adminUsers>>
        ELSE IF failure = "superAdmin"          \* User.create throws, the organization is deleted
          THEN SetupAnswer(500) /\ UNCHANGED <<organizations, adminUsers>>
        ELSE IF failure = "superAdminAndDelete" \* findByIdAndDelete throws as well
          THEN /\ SetupAnswer(500)
               /\ organizations' = organizations \cup {org}
               /\ adminUsers' = adminUsers
        ELSE IF failure = "link"                \* organization.save() throws
          THEN /\ SetupAnswer(500)
               /\ organizations' = organizations \cup {org}
               /\ adminUsers' = adminUsers \cup {admin}
        ELSE /\ SetupAnswer(201)
             /\ organizations' = organizations \cup {[org EXCEPT !.superAdmin = admin.id]}
             /\ adminUsers' = adminUsers \cup {admin}

\* The session of a super admin created here is not followed further: the
\* employee routes are driven by the two super admins of users.
PostSetup ==
    /\ \E name \in SetupNames, email \in SetupEmails, match \in BOOLEAN,
          failure \in SetupFailures :
          initializeSetup([companyName |-> name, email |-> email, match |-> match], failure)
    /\ UNCHANGED <<employees, issued, nextSecret, now, calls>>

\* ----------------------------------------------------- requests in flight
\* A handler that finds a document, changes it in memory and saves it yields
\* to other requests at its two awaits.  Such a request is a call in one of
\* two slots: idle, found (the document is in memory, the save is pending) or
\* done (answered).
Slots == {1, 2}

LifecycleOps ==
    {"updateEmployeeStatus", "archiveEmployeeByAdmin", "unarchiveEmployeeByAdmin",
     "softDeleteEmployeeByAdmin", "restoreEmployeeByAdmin"}

\* snap: the document as found; mem: the document in memory when save() is
\* called; base: the stored document when the first call of the round began.
\* Each is a sequence of at most one document.
Call(pc, op, user, id, status, secret, snap, mem, base, code) ==
    [pc |-> pc, op |-> op, user |-> user, id |-> id, status |-> status,
     secret |-> secret, snap |-> snap, mem |-> mem, base |-> base, code |-> code]

IdleCall == Call("idle", "none", Anonymous, NullId, NullStr, NoSecret, << >>, << >>, << >>, 0)

\* The validation a handler runs before its lookup: the code it answers, 0
\* to go on.
Validate(c) ==
    IF c.op = "updateEmployeeStatus" /\ c.status \notin validStatuses THEN 400 ELSE 0

\* The filter of the handler's findOne, on document doc with _id i
FindOneFilter(c, i, doc) ==
    CASE c.op = "updateEmployeeStatus" ->
            i = c.id /\ doc.organization = c.user.organization
      [] c.op = "archiveEmployeeByAdmin" ->
            i = c.id /\ doc.organization = c.user.organization /\ doc.isDeleted = FALSE
      [] c.op = "unarchiveEmployeeByAdmin" ->
            /\ i = c.id /\ doc.organization = c.user.organization
            /\ doc.employmentStatus = "archived" /\ doc.isDeleted = FALSE
      [] c.op = "softDeleteEmployeeByAdmin" ->
            i = c.id /\ doc.organization = c.user.organization /\ doc.isDeleted = FALSE
      [] c.op = "restoreEmployeeByAdmin" ->
            i = c.id /\ doc.organization = c.user.organization /\ doc.isDeleted = TRUE
      [] c.op = "completeEmployeeRegistration" ->
            /\ c.secret # NoSecret
            /\ doc.invitationToken = c.secret
            /\ doc.invitationStatus = "pending"

\* The answer when the lookup finds nothing
NotFound(c) == IF c.op = "completeEmployeeRegistration" THEN 400 ELSE 404

\* The check on the found document: the code it answers, 0 to go on
Refuse(c, doc) ==
    IF c.op = "archiveEmployeeByAdmin" /\ doc.employmentStatus = "archived" THEN 400 ELSE 0

\* The document in memory after the handler's assignments, at clock t
InMemory(c, doc, t) ==
    CASE c.op = "updateEmployeeStatus" ->
            [doc EXCEPT !.status = c.status,
                        !.statusHistory = Append(doc.statusHistory,
                            HistoryEntry(doc.status, c.status, c.user.id, NullStr))]
      [] c.op = "archiveEmployeeByAdmin" ->
            [doc EXCEPT !.employmentStatus = "archived",
                        !.archivedAt       = t,
                        !.archivedBy       = c.user.id,
                        !.archiveReason    = "No reason provided",
                        !.status           = "terminated",
                        !.statusHistory    = Append(doc.statusHistory,
                            HistoryEntry(doc.status, "terminated", c.user.id, "Archived by admin"))]
      [] c.op = "unarchiveEmployeeByAdmin" ->
            [doc EXCEPT !.employmentStatus = "employed",
                        !.status           = "pending",
                        !.archivedAt       = NullDate,
                        !.archivedBy       = NullId,
                        !.archiveReason    = NullStr,
                        !.statusHistory    = Append(doc.statusHistory,
                            HistoryEntry("terminated", "pending", c.user.id, "Unarchived by admin"))]
      [] c.op = "softDeleteEmployeeByAdmin" ->
            [doc EXCEPT !.isDeleted = TRUE, !.deletedAt = t, !.status = "terminated"]
      [] c.op = "restoreEmployeeByAdmin" ->
            [doc EXCEPT !.isDeleted = FALSE, !.deletedAt = NullDate, !.status = "pending"]
      [] c.op = "completeEmployeeRegistration" ->
            IF doc.invitationExpires < t
              THEN [doc EXCEPT !.invitationStatus = "expired"]
              ELSE [doc EXCEPT !.phone            = "ph1",
                               !.invitationStatus = "completed",
                               !.invitationToken  = NoSecret]

\* The answer after the save
Answer(c, doc, t) ==
    IF c.op = "completeEmployeeRegistration" /\ doc.invitationExpires < t THEN 400 ELSE 200

\* document.save(): only the paths whose value in memory differs from the
\* value found are written, and entries pushed onto statusHistory are
\* appended to the stored array; the stored version is not compared.
Modified(stored, found, memory) == IF memory # found THEN memory ELSE stored
SaveDocument(db, snap, mem) ==
    [email            |-> Modified(db.email, snap.email, mem.email),
     organization     |-> Modified(db.organization, snap.organization, mem.organization),
     adminId          |-> Modified(db.adminId, snap.adminId, mem.adminId),
     phone            |-> Modified(db.phone, snap.phone, mem.phone),
     emergencyContactName |-> Modified(db.emergencyContactName, snap.emergencyContactName,
                                       mem.emergencyContactName),
     salary           |-> Modified(db.salary, snap.salary, mem.salary),
     password         |-> Modified(db.password, snap.password, mem.password),
     invitationStatus |-> Modified(db.invitationStatus, snap.invitationStatus, mem.invitationStatus),
     invitationToken  |-> Modified(db.invitationToken, snap.invitationToken, mem.invitationToken),
     invitationExpires|-> Modified(db.invitationExpires, snap.invitationExpires, mem.invitationExpires),
     status           |-> Modified(db.status, snap.status, mem.status),
     employmentStatus |-> Modified(db.employmentStatus, snap.employmentStatus, mem.employmentStatus),
     archivedAt       |-> Modified(db.archivedAt, snap.archivedAt, mem.archivedAt),
     archivedBy       |-> Modified(db.archivedBy, snap.archivedBy, mem.archivedBy),
     archiveReason    |-> Modified(db.archiveReason, snap.archiveReason, mem.archiveReason),
     isDeleted        |-> Modified(db.isDeleted, snap.isDeleted, mem.isDeleted),
     deletedAt        |-> Modified(db.deletedAt, snap.deletedAt, mem.deletedAt),
     statusHistory    |-> db.statusHistory
                            \o SubSeq(mem.statusHistory, Len(snap.statusHistory) + 1,
                                      Len(mem.statusHistory))]

\* Entries a call in flight is going to push
Pushing(c) ==
    IF c.pc = "found" THEN Len(c.mem[1].statusHistory) - Len(c.snap[1].statusHistory) ELSE 0

\* The first await: protect, authorize, validation and the lookup.  The call
\* is answered at once when one of them refuses; otherwise it holds the
\* document in memory until its save.
Begin(s, op, tok, id, status, secret) ==
    LET public == op = "completeEmployeeRegistration"
        user   == IF public THEN Anonymous ELSE protect(tok)
        c      == Call("idle", op, user, id, status, secret, << >>, << >>, << >>, 0)
        found  == {i \in EmpIds : FindOneFilter(c, i, employees[i])}
        others == {calls[o].base : o \in Slots \ {s}} \ {<< >>}
        base   == IF others # {} THEN CHOOSE b \in others : TRUE
                  ELSE IF found # {} THEN <<employees[CHOOSE i \in found : TRUE]>>
                  ELSE << >>
        done(code) == calls' = [calls EXCEPT ![s] = [c EXCEPT !.pc = "done", !.code = code,
                                                           !.base = base]]
    IN  /\ calls[s].pc = "idle"
        /\ IF ~public /\ ~user.ok THEN done(401)
           ELSE IF ~public /\ ~authorize({"admin"}, user) THEN done(403)
           ELSE IF Validate(c) # 0 THEN done(Validate(c))
           ELSE IF found = {} THEN done(NotFound(c))
           ELSE \E i \in found :
                  IF Refuse(c, employees[i]) # 0 THEN done(Refuse(c, employees[i]))
                  ELSE LET mem == InMemory(c, employees[i], now)
                       IN  /\ Len(employees[i].statusHistory)
                                + Pushing(calls[1]) + Pushing(calls[2])
                                + Len(mem.statusHistory) - Len(employees[i].statusHistory)
                                <= MaxHist
                           /\ calls' = [calls EXCEPT ![s] =
                                  [c EXCEPT !.pc = "found", !.id = i, !.base = base,
                                            !.snap = <<employees[i]>>, !.mem = <<mem>>]]
        /\ UNCHANGED <<employees, issued, nextSecret, now, resp, organizations, adminUsers>>

\* The second await: save() and the answer.
Finish(s) ==
    LET c    == calls[s]
        code == Answer(c, c.snap[1], now)
    IN  /\ c.pc = "found"
        /\ Save(c.id, SaveDocument(employees[c.id], c.snap[1], c.mem[1]))
        /\ calls' = [calls EXCEPT ![s] = [c EXCEPT !.pc = "done", !.code = code]]
        /\ resp' = Response(code, "controller", c.op, c.user.id, c.id, NoToken,
                            IF code = 200 THEN {c.id} ELSE {})
        /\ UNCHANGED <<issued, nextSecret, now, organizations, adminUsers>>

\* The answers are delivered; the next round of requests may begin.
Settle ==
    /\ \A s \in Slots : calls[s].pc # "found"
    /\ \E s \in Slots : calls[s].pc = "done"
    /\ calls' = [s \in Slots |-> IdleCall]
    /\ UNCHANGED <<employees, issued, nextSecret, now, resp, organizations, adminUsers>>

Idle == \A s \in Slots : calls[s].pc = "idle"

\* ------------------------------------------------------------ specification
\* Both organizations are set up and each super admin holds the session
\* token initializeSetup returned; no employee has been invited yet.
Init ==
    /\ employees = << >>
    /\ issued = AdminTokens
    /\ nextSecret = 1
    /\ now = 0
    /\ resp = Response(0, "none", "none", NullId, NullId, NoToken, {})
    /\ calls = [s \in Slots |-> IdleCall]
    /\ organizations = {Organization(o, CompanyOf(o), 100 + o) : o \in Orgs}
    /\ adminUsers = {User(a, users[a].email, users[a].organization) : a \in AdminIds}

AllStatusBodies == validStatuses \cup {"bogus"}
AllReasons      == Reasons \cup {NullStr}

\* The whole system: any client, any request.
Next ==
    \/ PostInvite(Tokens)
    \/ GetRegisterToken
    \/ PostRegisterToken(Passwords)
    \/ PostRegister(Tokens, Passwords)
    \/ GetList(Tokens)
    \/ GetByStatus(Tokens)
    \/ GetById(Tokens)
    \/ PostStatus(Tokens, AllStatusBodies)
    \/ GetAdminAll(Tokens)
    \/ PutAdmin(Tokens, UpdateFields)
    \/ DeleteAdmin(Tokens)
    \/ PutRestore(Tokens)
    \/ PostArchive(Tokens, AllReasons)
    \/ PutUnarchive(Tokens)
    \/ GetProfile(Tokens)
    \/ PutProfile(Tokens)
    \/ PutProfilePassword(Tokens)
    \/ PostLogin
    \/ PostSetup
    \/ Tick

Spec == Init /\ [][Next]_vars

\* The session tokens held inside one organization: its admin's and its
\* employees'.
OrgTokens(org) ==
    {t \in issued : t.organization = org}

\* The admin lifecycle: the admin of an organization drives an employee
\* record through invitation, registration, status, archive and delete.
NextLifecycle ==
    \/ PostInvite(OrgTokens(1))
    \/ PostRegisterToken({"pw1"})
    \/ PostRegister(OrgTokens(1), {"pw1"})
    \/ PostStatus(OrgTokens(1), {"active", "bogus"})
    \/ PutAdmin(OrgTokens(1), {"phone"})
    \/ DeleteAdmin(OrgTokens(1))
    \/ PutRestore(OrgTokens(1))
    \/ PostArchive(OrgTokens(1), AllReasons)
    \/ PutUnarchive(OrgTokens(1))

SpecLifecycle == Init /\ [][NextLifecycle]_vars

\* Admin updates with arbitrary bodies, sent by the admin of one organization.
NextUpdate ==
    \/ PostInvite(OrgTokens(1))
    \/ PostRegister(OrgTokens(1), {"pw1"})
    \/ PutAdmin(OrgTokens(1), UpdateFields)
    \/ GetById(OrgTokens(1))

SpecUpdate == Init /\ [][NextUpdate]_vars

\* Invitations over time: invite, look up, complete, expire, re-invite.
NextInvitation ==
    \/ PostInvite(AdminTokens)
    \/ GetRegisterToken
    \/ PostRegisterToken({"pw1"})
    \/ PostRegister(AdminTokens, {"pw1"})
    \/ GetById(AdminTokens)
    \/ Tick

SpecInvitation == Init /\ [][NextInvitation]_vars

\* Sessions: employees obtain session tokens and use the self-service
\* routes while the admin of their organization changes their status.
NextSession ==
    \/ PostInvite(OrgTokens(1))
    \/ PostRegisterToken({"pw1"})
    \/ PostRegister(OrgTokens(1), {"pw1"})
    \/ PostStatus(OrgTokens(1), {"active", "inactive"})
    \/ PostArchive(OrgTokens(1), {NullStr})
    \/ DeleteAdmin(OrgTokens(1))
    \/ PostLogin
    \/ GetProfile(OrgTokens(1) \cup {NoToken})
    \/ PutProfile(OrgTokens(1) \cup {NoToken})
    \/ PutProfilePassword(OrgTokens(1) \cup {NoToken})

SpecSession == Init /\ [][NextSession]_vars

\* Tenant isolation: the by-id admin routes, called by the admins of both
\* organizations.
NextTenant ==
    \/ PostInvite(AdminTokens)
    \/ GetById(AdminTokens)
    \/ PostStatus(AdminTokens, {"inactive", "bogus"})
    \/ PutAdmin(AdminTokens, {"phone"})
    \/ DeleteAdmin(AdminTokens)
    \/ PutRestore(AdminTokens)
    \/ PostArchive(AdminTokens, {NullStr})
    \/ PutUnarchive(AdminTokens)

SpecTenant == Init /\ [][NextTenant]_vars

\* Access control: every admin route of the employee router and GET /profile,
\* called by the admin and by the employees of one organization.
NextAccess ==
    \/ PostInvite(OrgTokens(1))
    \/ PostRegister(OrgTokens(1), {"pw1"})
    \/ GetList(OrgTokens(1))
    \/ GetByStatus(OrgTokens(1))
    \/ GetById(OrgTokens(1))
    \/ PostStatus(OrgTokens(1), {"bogus"})
    \/ GetAdminAllWith(OrgTokens(1), {DefaultQuery})
    \/ PutAdmin(OrgTokens(1), {"phone"})
    \/ DeleteAdmin(OrgTokens(1))
    \/ PutRestore(OrgTokens(1))
    \/ PostArchive(OrgTokens(1), {NullStr})
    \/ PutUnarchive(OrgTokens(1))
    \/ GetProfile(OrgTokens(1))

SpecAccess == Init /\ [][NextAccess]_vars

\* Invitations that expire and are sent again, on records the admins have
\* meanwhile edited.
NextReinvite ==
    \/ PostInvite(AdminTokens)
    \/ GetRegisterToken
    \/ PostRegisterToken({"pw1"})
    \/ PostStatus(AdminTokens, {"active"})
    \/ PutAdmin(AdminTokens, {"phone"})
    \/ Tick

SpecReinvite == Init /\ [][NextReinvite]_vars

\* Registration completion on both routes, with matching and with differing
\* password confirmations, and the logins that follow.
NextRegistration ==
    \/ PostInvite(AdminTokens)
    \/ PostRegisterToken(Passwords)
    \/ PostRegister(AdminTokens, Passwords)
    \/ PostStatus(AdminTokens, {"active"})
    \/ PostLogin

SpecRegistration == Init /\ [][NextRegistration]_vars

\* Archive, unarchive, delete and restore of a record whose status its
\* organization's admin sets by the status route or by an update body.
NextArchive ==
    \/ PostInvite(OrgTokens(1))
    \/ PostStatus(OrgTokens(1), {"active"})
    \/ PutAdmin(OrgTokens(1), {"status"})
    \/ PostArchive(OrgTokens(1), AllReasons)
    \/ PutUnarchive(OrgTokens(1))
    \/ DeleteAdmin(OrgTokens(1))
    \/ PutRestore(OrgTokens(1))

SpecArchive == Init /\ [][NextArchive]_vars

\* The audit trail: the operations that append to statusHistory, and admin
\* updates whose body names statusHistory.
NextHistory ==
    \/ PostInvite(OrgTokens(1))
    \/ PostStatus(OrgTokens(1), {"active", "inactive"})
    \/ PostArchive(OrgTokens(1), {NullStr})
    \/ PutUnarchive(OrgTokens(1))
    \/ PutAdmin(OrgTokens(1), {"statusHistory"})

SpecHistory == Init /\ [][NextHistory]_vars

\* Status updates: every status value, a missing one and an invalid one,
\* posted by the organization's admin from every current status.
NextStatus ==
    \/ PostInvite(OrgTokens(1))
    \/ PostStatus(OrgTokens(1), AllStatusBodies \cup {NullStr})
    \/ DeleteAdmin(OrgTokens(1))

SpecStatus == Init /\ [][NextStatus]_vars

\* ================================================================== claims
\* Words used by the claims.
AdminOnly(handler) ==
    \E k \in 1..Len(router) : router[k].handler = handler /\ router[k].roles = {"admin"}

ByIdHandlers ==
    {"getEmployee", "updateEmployeeStatus", "updateEmployeeByAdmin",
     "softDeleteEmployeeByAdmin", "restoreEmployeeByAdmin",
     "archiveEmployeeByAdmin", "unarchiveEmployeeByAdmin"}

SelfServiceHandlers ==
    {"getEmployeeProfile", "updateEmployeeProfile", "changeEmployeePassword"}

\* C1: in every reachable state, for every employee, employmentStatus is
\* archived exactly when archivedAt, archivedBy and archiveReason are all
\* non-null and status is terminated.
C1_ArchivedIffArchiveFields ==
    \A i \in EmpIds :
        (employees[i].employmentStatus = "archived")
        <=> /\ employees[i].archivedAt # NullDate
            /\ employees[i].archivedBy # NullId
            /\ employees[i].archiveReason # NullStr
            /\ employees[i].status = "terminated"

\* C2: in every reachable state, for every employee, isDeleted = true implies
\* status = terminated.
C2_DeletedImpliesTerminated ==
    \A i \in EmpIds :
        employees[i].isDeleted => employees[i].status = "terminated"

\* The step answers an admin's request that names, by id, an employee of
\* another organization than the admin's.
CrossTenantStep ==
    /\ resp'.handler \in ByIdHandlers
    /\ resp'.user \in AdminIds
    /\ resp'.target \in EmpIds
    /\ employees[resp'.target].organization # users[resp'.user].organization

\* C3 (as claimed): every admin operation that targets by id an employee of
\* another organization is answered 404 and leaves the records unchanged.
C3_CrossTenantAlways404 ==
    [][CrossTenantStep => (resp'.code = 404 /\ employees' = employees)]_vars

\* C3 (amended): every admin operation that targets by id an employee of
\* another organization leaves the records unchanged and is answered 404,
\* except that UpdateStatus with a missing or unknown status value is
\* answered 400 by the validation that precedes the lookup; never 403 and
\* never a success.
C3_CrossTenantNotFoundOrInvalid ==
    [][CrossTenantStep =>
          /\ employees' = employees
          /\ \/ resp'.code = 404
             \/ resp'.code = 400 /\ resp'.handler = "updateEmployeeStatus"]_vars

\* C3 witness: an admin's soft-delete of an existing, not deleted employee
\* of the other organization has been answered 404.
C3_Witness ==
    /\ resp.handler = "softDeleteEmployeeByAdmin"
    /\ resp.code = 404
    /\ resp.user \in AdminIds
    /\ resp.target \in EmpIds
    /\ employees[resp.target].organization # users[resp.user].organization
    /\ ~employees[resp.target].isDeleted

\* C4: whenever a response carries an employee-role session token, that
\* employee's status is active.
C4_TokenOnlyWhenActive ==
    resp.token.role = "employee" => employees[resp.token.id].status = "active"

\* C5: no self-service request (GET/PUT profile, password change) succeeds
\* for an employee whose status is inactive or terminated.
C5_InactiveSessionRejected ==
    (/\ resp.handler \in SelfServiceHandlers
     /\ resp.by = "controller"
     /\ resp.code = 200)
    => employees[resp.user].status \notin {"inactive", "terminated"}

\* C6: a request to an admin-only route that carries a valid employee-role
\* session token is answered 403 and changes nothing.
C6_EmployeeOnAdminRouteForbidden ==
    [][(AdminOnly(resp'.handler) /\ resp'.user \in EmpIds)
          => /\ resp'.code = 403
             /\ UNCHANGED <<employees, issued, nextSecret>>]_vars

\* C6 witness: an employee's own token was used on the admin soft-delete
\* route against an existing, not deleted record and was answered 403.
C6_Witness ==
    /\ resp.handler = "softDeleteEmployeeByAdmin"
    /\ resp.code = 403
    /\ resp.by = "authorize"
    /\ resp.user \in EmpIds
    /\ resp.target \in EmpIds
    /\ ~employees[resp.target].isDeleted

\* C7: GET /api/employees/profile with the session token of a non-deleted
\* employee is dispatched to the self-profile handler and answered 200 with
\* the record of the token's principal.
C7_ProfileReachesSelfHandler ==
    [][\A t \in issued :
          (/\ t.role = "employee"
           /\ t.id \in EmpIds
           /\ ~employees[t.id].isDeleted
           /\ GetProfile({t}))
          => /\ resp'.code = 200
             /\ resp'.handler = "getEmployeeProfile"
             /\ resp'.data = {t.id}]_vars

\* C8: no step of any operation changes an employee's organization.
C8_OrganizationNeverChanges ==
    [][\A i \in EmpIds :
          employees'[i].organization = employees[i].organization]_vars

\* C9: in every reachable state an invitationToken is stored only on records
\* whose invitationStatus is pending.
C9_SecretOnlyWhilePending ==
    \A i \in EmpIds :
        employees[i].invitationToken # NoSecret
        => employees[i].invitationStatus = "pending"

\* C10: once the clock is strictly past invitationExpires, no step takes the
\* invitation to completed (neither registration route succeeds for it).
C10_NoCompletionAfterExpiry ==
    [][\A i \in EmpIds :
          (/\ employees[i].invitationStatus = "pending"
           /\ employees[i].invitationExpires < now)
          => employees'[i].invitationStatus # "completed"]_vars

\* The invitation handlers: those that act on an invitation.
InvitationHandlers ==
    {"sendEmployeeInvitation", "getEmployeeByToken",
     "completeEmployeeRegistration", "registerEmployee"}

\* C11: invitationStatus completed is terminal: no step of any operation
\* takes a completed record to another invitationStatus, and no invitation
\* action answers with success for a completed record.
C11_CompletedIsTerminal ==
    [][\A i \in EmpIds :
          employees[i].invitationStatus = "completed"
          => /\ employees'[i].invitationStatus = "completed"
             /\ ~(/\ resp'.handler \in InvitationHandlers
                  /\ resp'.code < 400
                  /\ i \in resp'.data)]_vars

\* A valid invitation request by an admin of employee i's organization, for
\* i's address (every invited address is in InviteEmails), was answered in
\* this step.
InviteRequestFor(i) ==
    /\ now' = now
    /\ resp'.handler = "sendEmployeeInvitation"
    /\ resp'.by = "controller"
    /\ resp'.error # InvalidInvitation
    /\ resp'.user \in AdminIds
    /\ users[resp'.user].organization = employees[i].organization
    /\ employees[i].email \in InviteEmails

C13_ReinviteResetsStatusKeepsProfile ==
    [][\A i \in EmpIds :
          (/\ employees[i].invitationStatus = "expired"
           /\ InviteRequestFor(i)
           /\ resp'.code = 201)
          => /\ employees'[i].status = "pending"
             /\ employees'[i] =
                  [employees[i] EXCEPT
                      !.adminId           = employees'[i].adminId,
                      !.invitationToken   = employees'[i].invitationToken,
                      !.invitationExpires = employees'[i].invitationExpires,
                      !.invitationStatus  = employees'[i].invitationStatus,
                      !.status            = employees'[i].status]]_vars

\* C14: an Invite for an address whose record in the caller's organization
\* is pending is refused with InvitationAlreadySent, and one whose record is
\* completed with AlreadyRegistered; the record (secret and expiry included)
\* is unchanged, no secret is drawn and no invitation mail is sent.
C14_InviteRefusedOnPendingOrCompleted ==
    [][\A i \in EmpIds :
          (/\ employees[i].invitationStatus \in {"pending", "completed"}
           /\ InviteRequestFor(i))
          => /\ resp'.code = 400
             /\ resp'.error = IF employees[i].invitationStatus = "pending"
                                THEN InvitationAlreadySent ELSE AlreadyRegistered
             /\ resp'.mail = NullStr
             /\ UNCHANGED <<employees, nextSecret, issued>>]_vars

\* C14 witness: an invitation by the admin of a completed record's
\* organization was refused as already registered.
C14_Witness ==
    /\ resp.handler = "sendEmployeeInvitation"
    /\ resp.error = AlreadyRegistered
    /\ \E i \in EmpIds : /\ employees[i].invitationStatus = "completed"
                         /\ users[resp.user].organization = employees[i].organization

\* The registration-completion handlers.
CompletionHandlers == {"completeEmployeeRegistration", "registerEmployee"}

\* C15: after a successful registration completion on either route the
\* record is completed with status pending and no invitation secret, the
\* supplied password is its credential, and the response carries the
\* employee's session token.
C15_CompletionEffects ==
    [][(resp'.handler \in CompletionHandlers /\ resp'.code < 400)
          => \A i \in resp'.data :
                /\ employees'[i].invitationStatus = "completed"
                /\ employees'[i].status = "pending"
                /\ employees'[i].invitationToken = NoSecret
                /\ matchPassword(employees'[i].password, "pw1")
                /\ resp'.token = Jwt(i, employees'[i].organization, "employee")]_vars

\* C16: a registration-completion request whose password and confirmPassword
\* differ (pw1 against pw2) is answered 400 on either route and leaves the
\* records unchanged.
C16_PasswordMismatchRejected ==
    [][(PostRegisterToken({"pw2"}) \/ PostRegister(AdminTokens, {"pw2"}))
          => /\ resp'.code = 400
             /\ employees' = employees]_vars

\* The request answered in this step named record i and came from an admin
\* of i's organization.
AdminRequestOn(i, handler) ==
    /\ resp'.handler = handler
    /\ resp'.by = "controller"
    /\ resp'.target = i
    /\ resp'.user \in AdminIds
    /\ users[resp'.user].organization = employees[i].organization

\* C17: Archive followed by Unarchive, whatever the status before: each of
\* the two appends exactly one statusHistory entry, and after the Unarchive
\* the record is employed with status pending and no archive fields.
C17_ArchiveUnarchiveRoundTrip ==
    [][\A i \in EmpIds :
          /\ (AdminRequestOn(i, "archiveEmployeeByAdmin") /\ resp'.code = 200)
             => /\ ~employees[i].isDeleted
                /\ employees[i].employmentStatus = "employed"
                /\ Len(employees'[i].statusHistory) = Len(employees[i].statusHistory) + 1
                /\ SubSeq(employees'[i].statusHistory, 1, Len(employees[i].statusHistory))
                      = employees[i].statusHistory
          /\ (/\ resp.handler = "archiveEmployeeByAdmin" /\ resp.code = 200
              /\ resp.target = i
              /\ AdminRequestOn(i, "unarchiveEmployeeByAdmin") /\ resp'.code = 200)
             => /\ employees'[i].employmentStatus = "employed"
                /\ employees'[i].status = "pending"
                /\ employees'[i].archivedAt = NullDate
                /\ employees'[i].archivedBy = NullId
                /\ employees'[i].archiveReason = NullStr
                /\ Len(employees'[i].statusHistory) = Len(employees[i].statusHistory) + 1
                /\ SubSeq(employees'[i].statusHistory, 1, Len(employees[i].statusHistory))
                      = employees[i].statusHistory]_vars

\* C17 witness: an Unarchive has just answered an Archive of a record whose
\* status was active when it was archived; the record is pending.
C17_Witness ==
    /\ resp.handler = "unarchiveEmployeeByAdmin"
    /\ resp.code = 200
    /\ resp.target \in EmpIds
    /\ LET h == employees[resp.target].statusHistory
       IN  /\ Len(h) >= 2
           /\ h[Len(h) - 1].from = "active"
           /\ h[Len(h) - 1].reason = "Archived by admin"
           /\ h[Len(h)].reason = "Unarchived by admin"
    /\ employees[resp.target].status = "pending"

\* C18: Archive of an archived record is refused with AlreadyArchived (400);
\* Archive or Unarchive of a soft-deleted record and Unarchive of a record
\* that is not archived are answered 404; the records stay unchanged.
C18_ArchiveRefusals ==
    [][\A i \in EmpIds :
          /\ (AdminRequestOn(i, "archiveEmployeeByAdmin") /\ employees[i].isDeleted)
             => (resp'.code = 404 /\ employees' = employees)
          /\ (/\ AdminRequestOn(i, "archiveEmployeeByAdmin")
              /\ ~employees[i].isDeleted
              /\ employees[i].employmentStatus = "archived")
             => (resp'.code = 400 /\ resp'.error = AlreadyArchived /\ employees' = employees)
          /\ (/\ AdminRequestOn(i, "unarchiveEmployeeByAdmin")
              /\ (employees[i].isDeleted \/ employees[i].employmentStatus # "archived"))
             => (resp'.code = 404 /\ employees' = employees)]_vars

\* C18 witness: an Archive of an archived, not deleted record was refused.
C18_Witness ==
    /\ resp.handler = "archiveEmployeeByAdmin"
    /\ resp.error = AlreadyArchived
    /\ resp.target \in EmpIds
    /\ employees[resp.target].employmentStatus = "archived"
    /\ ~employees[resp.target].isDeleted
    /\ employees[resp.target].statusHistory # << >>

\* C19: SoftDelete succeeds exactly on a record that is not deleted and makes
\* it deleted, deletedAt set, status terminated; Restore succeeds exactly on a
\* deleted record and makes it not deleted, deletedAt null, status pending;
\* otherwise each answers 404.  Neither touches employmentStatus or the
\* archive fields, and Archive and Unarchive never touch isDeleted or deletedAt.
C19_DeleteRestoreFrame ==
    [][\A i \in EmpIds :
          /\ AdminRequestOn(i, "softDeleteEmployeeByAdmin")
             => IF employees[i].isDeleted
                  THEN resp'.code = 404 /\ employees' = employees
                  ELSE /\ resp'.code = 200
                       /\ employees'[i] = [employees[i] EXCEPT
                              !.isDeleted = TRUE,
                              !.deletedAt = employees'[i].deletedAt,
                              !.status    = "terminated"]
                       /\ employees'[i].deletedAt # NullDate
          /\ AdminRequestOn(i, "restoreEmployeeByAdmin")
             => IF ~employees[i].isDeleted
                  THEN resp'.code = 404 /\ employees' = employees
                  ELSE /\ resp'.code = 200
                       /\ employees'[i] = [employees[i] EXCEPT
                              !.isDeleted = FALSE,
                              !.deletedAt = NullDate,
                              !.status    = "pending"]
          /\ (\/ AdminRequestOn(i, "archiveEmployeeByAdmin")
              \/ AdminRequestOn(i, "unarchiveEmployeeByAdmin"))
             => /\ employees'[i].isDeleted = employees[i].isDeleted
                /\ employees'[i].deletedAt = employees[i].deletedAt]_vars

\* C19 witness: an archived record was soft-deleted and then restored: it is
\* archived still, not deleted, and pending.
C19_Witness ==
    /\ resp.handler = "restoreEmployeeByAdmin"
    /\ resp.code = 200
    /\ resp.target \in EmpIds
    /\ employees[resp.target].employmentStatus = "archived"
    /\ employees[resp.target].archivedAt # NullDate
    /\ ~employees[resp.target].isDeleted
    /\ employees[resp.target].deletedAt = NullDate
    /\ employees[resp.target].status = "pending"

\* C20: statusHistory is append-only: in every step the statusHistory of
\* every employee before the step is a prefix of its statusHistory after.
C20_StatusHistoryAppendOnly ==
    [][\A i \in EmpIds :
          /\ Len(employees'[i].statusHistory) >= Len(employees[i].statusHistory)
          /\ SubSeq(employees'[i].statusHistory, 1, Len(employees[i].statusHistory))
                = employees[i].statusHistory]_vars

\* C21: every status change is logged: whenever an employee's statusHistory
\* is not empty, its status is the `to` of the last entry.
C21_StatusMatchesLastHistoryEntry ==
    \A i \in EmpIds :
        employees[i].statusHistory # << >>
        => employees[i].status
             = employees[i].statusHistory[Len(employees[i].statusHistory)].to

FlagValues  == {NullStr, "true", "false"}
PageTexts   == {Absent, Given(<<"0">>), Given(<<"1">>), Given(<<"2">>), Given(<<"-", "1">>),
                Given(<< >>), Given(<<"a", "b", "c">>), Given(<<"1", ".", "5">>)}
LimitTexts  == {Absent, Given(<<"0">>), Given(<<"1">>), Given(<<"1", "0", "0">>),
                Given(<<"1", "0", "1">>), Given(<<"a", "b", "c">>)}
FlagQueries ==
    {[DefaultQuery EXCEPT !.includeDeleted = d, !.includeArchived = a] :
        d \in FlagValues, a \in FlagValues}
StatusQueries ==
    {[DefaultQuery EXCEPT !.status = s] : s \in {"terminated", "bogus"}}
PageQueries ==
    {[DefaultQuery EXCEPT !.page = p, !.limit = l] :
        p \in PageTexts, l \in {Absent, Given(<<"1">>)}}
    \cup {[DefaultQuery EXCEPT !.limit = l] : l \in LimitTexts}
SortQueries ==
    {[DefaultQuery EXCEPT !.sortBy = f, !.sortOrder = o] :
        f \in {"createdAt", "password"}, o \in {"asc", "desc", "up"}}
ListQueries == FlagQueries \cup StatusQueries \cup PageQueries \cup SortQueries

ListingEmails == InviteEmails \cup {"e3"}
ListingIds    == 1..Cardinality(ListingEmails)

NextListing ==
    \/ PostInviteAs(OrgTokens(1), ListingEmails)
    \/ DeleteAdminOn(OrgTokens(1), ListingIds)
    \/ PostArchiveOn(OrgTokens(1), ListingIds, {NullStr})
    \/ GetAdminAllWith(OrgTokens(1), ListQueries)
SpecListing == Init /\ [][NextListing]_vars

\* C23: GET /admin/all with default paging answers 200 with exactly the
\* caller's records that are neither deleted nor archived; includeDeleted=true
\* re-admits the deleted ones only, includeArchived=true the archived ones
\* only, and both together every record of the organization.
C23_ListFlags ==
    [][\A tok \in OrgTokens(1), d \in FlagValues, a \in FlagValues :
          GetAdminAllWith({tok}, {[DefaultQuery EXCEPT !.includeDeleted = d,
                                                       !.includeArchived = a]})
          => /\ resp'.code = 200
             /\ resp'.data =
                  {i \in EmpIds :
                     /\ employees[i].organization = tok.organization
                     /\ (employees[i].isDeleted => d = "true")
                     /\ (employees[i].employmentStatus = "archived" => a = "true")}]_vars

\* A listing that shows a deleted record while an archived, undeleted record
\* of the same organization stays hidden.
C23_Witness ==
    /\ resp.handler = "getEmployeesForAdmin"
    /\ resp.code = 200
    /\ \E i \in resp.data : employees[i].isDeleted /\ employees[i].employmentStatus = "employed"
    /\ \E j \in EmpIds \ resp.data :
          /\ employees[j].organization = 1
          /\ ~employees[j].isDeleted
          /\ employees[j].employmentStatus = "archived"

\* C28: GET /admin/all answers 400 and changes nothing whenever the page is
\* not an integer of at least 1, the page size is not an integer in 1..100,
\* or the sort field, sort direction or status filter is not a listed value;
\* every other request is answered 200.
C28_ListValidation ==
    [][\A tok \in OrgTokens(1), q \in ListQueries :
          GetAdminAllWith({tok}, {q})
          => IF /\ ~pageNum(q).nan /\ pageNum(q).n >= 1
                /\ ~limitNum(q).nan /\ limitNum(q).n \in 1..100
                /\ q.sortBy \in validSortFields
                /\ q.sortOrder \in validSortOrders
                /\ q.status \in validStatuses \cup {NullStr}
               THEN resp'.code = 200
               ELSE resp'.code = 400 /\ employees' = employees]_vars

\* ----------------------------------------------------------- token spaces
\* Invitation links and session tokens side by side: employees are invited or
\* registered by the admin, records are updated, and clients present stored
\* secrets and session tokens on GET /register/:token and GET /profile.
NextToken ==
    \/ PostInvite(OrgTokens(1))
    \/ PostRegister(OrgTokens(1), {"pw1"})
    \/ PutAdmin(OrgTokens(1), {"invitationStatus"})
    \/ GetRegisterToken
    \/ GetProfile(Tokens)
SpecToken == Init /\ [][NextToken]_vars

\* C24: GET /register/:token given a signed session token in place of the
\* secret never resolves an employee (400, nothing changes), and a protected
\* route given anything that is not a signed session token answers 401.
C24_TokenSpacesDisjoint ==
    [][/\ \A t \in issued :
            Serve("GET", <<"register", "$">>, NoToken,
                  [secret |-> NoSecret, jwt |-> t], NullId)
            => resp'.code = 400 /\ employees' = employees
       /\ GetProfile({NoToken}) => resp'.code = 401]_vars

\* ---------------------------------------------------------------- profile
\* Profile updates whose bodies name allowed fields, protected fields, or
\* both, sent by registered employees of one organization.
ProfileBodies ==
    {[phone |-> "ph2"],
     [emergencyContactName |-> "ec2"],
     [phone |-> "ph2", status |-> "active"],
     [emergencyContactName |-> "ec2", organization |-> 2, employmentStatus |-> "archived"],
     [status |-> "active", invitationStatus |-> "pending"]}
NextProfile ==
    \/ PostInviteAs(OrgTokens(1), EmpEmails)
    \/ PostRegister(OrgTokens(1), {"pw1"})
    \/ PutProfileWith(Tokens, ProfileBodies)
SpecProfile == Init /\ [][NextProfile]_vars

\* C25: a PUT /profile request changes nothing but phone, address and the
\* three emergency contact fields of the record of the employee who sent it,
\* whatever its body carries.
C25_ProfileUpdateFrame ==
    [][\A tok \in Tokens, data \in ProfileBodies :
          PutProfileWith({tok}, {data})
          => /\ Len(employees') = Len(employees)
             /\ \A i \in EmpIds : \A f \in DOMAIN employees[i] :
                   employees'[i][f] # employees[i][f]
                   => /\ tok.role = "employee"
                      /\ i = tok.id
                      /\ f \in {"phone", "address", "emergencyContactName",
                                "emergencyContactPhone", "emergencyContactRelation"}]_vars

\* An employee's profile update went through while another employee exists.
C25_Witness ==
    /\ resp.handler = "updateEmployeeProfile"
    /\ resp.code = 200
    /\ employees[resp.user].phone = "ph2"
    /\ employees[resp.user].emergencyContactName = "ec2"
    /\ employees[resp.user].status = "pending"
    /\ \E j \in EmpIds : j # resp.user /\ employees[j].emergencyContactName = "ec1"

\* C26: POST /api/auth/login answers 200 with a session token exactly when an
\* admin has the address and the password matches, or no admin has it and an
\* employee has it whose password matches and whose status is active; every
\* other login is answered 401 without a token.
C26_LoginIssuesTokenExactly ==
    [][\A email \in EmpEmails \cup {users[a].email : a \in AdminIds}, pw \in Passwords :
          login([user |-> Anonymous, id |-> NullId], [email |-> email, password |-> pw])
          => IF \/ \E a \in AdminIds : /\ users[a].email = email
                                       /\ matchPassword(users[a].password, pw)
                \/ /\ \A a \in AdminIds : users[a].email # email
                   /\ \E i \in EmpIds : /\ employees[i].email = email
                                        /\ matchPassword(employees[i].password, pw)
                                        /\ employees[i].status = "active"
               THEN resp'.code = 200 /\ resp'.token # NoToken
               ELSE resp'.code = 401 /\ resp'.token = NoToken /\ issued' = issued]_vars

\* ------------------------------------------------------------------ salary
\* The salaries an invitation body may carry: none, null, the empty and a
\* blank string, numeric and non-numeric strings, numbers and a boolean.
Salaries ==
    {JsUndefined, JsNull, JsStr(<< >>), JsStr(<<" ">>), JsStr(<<"a", "b", "c">>),
     JsStr(<<"5">>), JsStr(<<"-", "1">>), JsStr(<<"5", "a">>),
     JsNum(0), JsNum(5), JsNum(0 - 1), JsBool(TRUE)}

\* Invitations with every salary, expiry and re-invitation.
NextSalary ==
    \/ PostInviteWith(OrgTokens(1), InviteEmails, Salaries)
    \/ GetRegisterToken
    \/ Tick
SpecSalary == Init /\ [][NextSalary]_vars

\* C27: an otherwise valid invitation whose salary is absent, null or a blank
\* string stores salary 0 on the new or re-invited record; one whose salary
\* is not a number or is negative is answered 400 and leaves every record as
\* it was.
C27_SalaryDefaultAndValidation ==
    [][\A tok \in OrgTokens(1), email \in InviteEmails, salary \in Salaries :
          /\ Serve("POST", <<"invite">>, tok, NullId,
                   [email |-> email, valid |-> TRUE, salary |-> salary,
                    writeError |-> "none", encodable |-> TRUE, mailer |-> "sent"])
          /\ now' = now
          => /\ salary \in {JsUndefined, JsNull, JsStr(<< >>), JsStr(<<" ">>)}
                /\ resp'.code = 201
                => \A i \in resp'.data : employees'[i].salary = 0
             /\ \/ salary.t \in {"boolean"}
                \/ salary.t = "string" /\ salary.text \notin {<< >>, <<" ">>, <<"5">>}
                \/ salary.t = "number" /\ salary.n < 0
                => resp'.code = 400 /\ employees' = employees]_vars

\* ------------------------------------------------------------- concurrency
\* Two requests at a time on the record of one organization: the admin's
\* lifecycle requests and registration completions begin, save and are
\* answered in any interleaving; between rounds the admin invites, sets the
\* status, archives and deletes.
BeginLifecycle(T) ==
    \E s \in Slots, op \in LifecycleOps, tok \in T, id \in IdSpace, st \in {"active", "bogus"} :
        Begin(s, op, tok, id, st, NoSecret)

BeginCompletion ==
    \E s \in Slots, secret \in 1..MaxSecret :
        Begin(s, "completeEmployeeRegistration", NoToken, NullId, NullStr, secret)

FinishCall == \E s \in Slots : Finish(s)

NextConcurrent ==
    \/ Idle /\ PostInvite(OrgTokens(1))
    \/ Idle /\ PostArchive(OrgTokens(1), {NullStr})
    \/ Idle /\ DeleteAdmin(OrgTokens(1))
    \/ BeginLifecycle(OrgTokens(1))
    \/ BeginCompletion
    \/ FinishCall
    \/ Settle
SpecConcurrent == Init /\ [][NextConcurrent]_vars

\* The request c running with no other request in flight, on document doc
\* with _id i: the document it leaves and the code it answers.
RunAlone(c, i, doc) ==
    IF Validate(c) # 0 THEN [doc |-> doc, code |-> Validate(c)]
    ELSE IF ~FindOneFilter(c, i, doc) THEN [doc |-> doc, code |-> NotFound(c)]
    ELSE IF Refuse(c, doc) # 0 THEN [doc |-> doc, code |-> Refuse(c, doc)]
    ELSE [doc  |-> SaveDocument(doc, doc, InMemory(c, doc, now)),
          code |-> Answer(c, doc, now)]

\* The lifecycle fields of a document
LifecycleFields(doc) ==
    <<doc.status, doc.employmentStatus, doc.archivedAt, doc.archivedBy, doc.archiveReason,
      doc.isDeleted, doc.deletedAt, doc.statusHistory>>

\* C29: when two lifecycle requests on the same employee have both been
\* answered, the stored record and the two answers are those of running one
\* of them to its end and then the other.
C29_LifecycleSerializable ==
    /\ calls[1].pc = "done" /\ calls[2].pc = "done"
    /\ calls[1].op \in LifecycleOps /\ calls[2].op \in LifecycleOps
    /\ calls[1].id = calls[2].id
    /\ calls[1].base # << >>
    => \E first \in Slots :
          LET second == CHOOSE s \in Slots : s # first
              id     == calls[1].id
              r1     == RunAlone(calls[first], id, calls[1].base[1])
              r2     == RunAlone(calls[second], id, r1.doc)
          IN  /\ calls[first].code = r1.code
              /\ calls[second].code = r2.code
              /\ LifecycleFields(employees[id]) = LifecycleFields(r2.doc)

\* C30: of two answered completion requests that presented the same
\* invitation secret, at most one succeeded.
C30_SecretSingleUse ==
    /\ calls[1].pc = "done" /\ calls[2].pc = "done"
    /\ calls[1].op = "completeEmployeeRegistration"
    /\ calls[2].op = "completeEmployeeRegistration"
    /\ calls[1].secret = calls[2].secret
    => ~(calls[1].code = 200 /\ calls[2].code = 200)

\* C31: a valid Invite for an address whose record is pending with
\* invitationExpires already past is not refused: it is answered 201 as a
\* re-invite, and any step that answers for such a record leaves it expired
\* or pending again, never still pending with the same past expiry.
C31_ExpiredObservedOnInvite ==
    [][\A i \in EmpIds :
          (/\ employees[i].invitationStatus = "pending"
           /\ employees[i].invitationExpires < now
           /\ InviteRequestFor(i))
          => /\ resp'.code = 201
             /\ employees'[i].invitationStatus = "pending"
             /\ employees'[i].invitationExpires > now]_vars

\* ------------------------------------------------------- national-id index
\* Invitations and re-invitations whose write the database may refuse with a
\* duplicate key on the aadharCardNumber index.
NextConflict ==
    \/ PostInviteOn(OrgTokens(1), InviteEmails, {JsUndefined, JsNum(5)},
                    {"none", "aadharCardNumber"})
    \/ GetRegisterToken
    \/ Tick
SpecConflict == Init /\ [][NextConflict]_vars

\* C33: a re-invite (a valid Invite for an address whose record is expired)
\* whose write is refused on the aadharCardNumber index is still answered 201
\* and leaves the record pending with a new secret.
C33_ConflictResolvedOnReinvite ==
    [][\A i \in EmpIds, tok \in OrgTokens(1) :
          /\ employees[i].invitationStatus = "expired"
          /\ now' = now
          /\ Serve("POST", <<"invite">>, tok, NullId,
                   [email |-> employees[i].email, valid |-> TRUE, salary |-> JsUndefined,
                    writeError |-> "aadharCardNumber", encodable |-> TRUE,
                    mailer |-> "sent"])
          => /\ resp'.code = 201
             /\ employees'[i].invitationStatus = "pending"
             /\ employees'[i].invitationToken \notin {NoSecret, employees[i].invitationToken}]_vars

\* ---------------------------------------------------------------- failures
\* Every lifecycle mutator, with requests that are refused as well as
\* requests that go through, while invitations run out.  The status route is
\* driven with a status outside validStatuses only.
NextFailure ==
    \/ PostInviteNamed(OrgTokens(1), InviteEmails, {JsUndefined}, {"none"}, BOOLEAN, {"sent"})
    \/ PostRegisterToken({"pw1"})
    \/ PostStatus(OrgTokens(1), {"bogus"})
    \/ PutAdmin(OrgTokens(1), {"statusHistory"})
    \/ DeleteAdmin(OrgTokens(1))
    \/ PutRestore(OrgTokens(1))
    \/ PostArchive(OrgTokens(1), {NullStr})
    \/ PutUnarchive(OrgTokens(1))
    \/ Tick
SpecFailure == Init /\ [][NextFailure]_vars

\* The handlers that change an employee's lifecycle.
Mutators ==
    {"sendEmployeeInvitation", "completeEmployeeRegistration", "registerEmployee",
     "updateEmployeeStatus", "archiveEmployeeByAdmin", "unarchiveEmployeeByAdmin",
     "softDeleteEmployeeByAdmin", "restoreEmployeeByAdmin", "updateEmployeeByAdmin"}

\* A lifecycle mutator answered this step's request with an error.
MutatorRefused ==
    /\ now' = now
    /\ resp'.handler \in Mutators
    /\ resp'.code >= 400

\* C32: a lifecycle mutator that answers with an error leaves every
\* employee record exactly as it was.
C32_NoChangeOnFailure ==
    [][MutatorRefused => employees' = employees]_vars

\* -------------------------------------------------------- invitation mail
\* Invitations and re-invitations under every answer of the mailer.
NextMail ==
    \/ PostInviteNamed(OrgTokens(1), InviteEmails \cup {"e3"}, {JsUndefined}, {"none"},
                       BOOLEAN, MailOutcomes)
    \/ GetRegisterToken
    \/ Tick
SpecMail == Init /\ [][NextMail]_vars

\* The record an accepted Invite for the address leaves behind: pending, with
\* the secret drawn by this request and a fresh expiry.
WrittenByInvite(e, email) ==
    /\ e.email = email
    /\ e.invitationStatus = "pending"
    /\ e.invitationToken = nextSecret
    /\ e.invitationExpires = now + InvitationTTL

\* C34: an Invite that gets as far as the send has written the record, and
\* whatever the mailer returns (sent, failed, unconfigured) the answer is 201
\* and the record stays as written.
C34_SendOutcomeIgnored ==
    [][\A tok \in OrgTokens(1), email \in InviteEmails \cup {"e3"}, m \in MailOutcomes :
          /\ now' = now
          /\ Serve("POST", <<"invite">>, tok, NullId,
                   [email |-> email, valid |-> TRUE, salary |-> JsUndefined,
                    writeError |-> "none", encodable |-> TRUE, mailer |-> m])
          /\ resp'.error = NullStr
          => /\ resp'.code = 201
             /\ resp'.mailed = m
             /\ \E i \in resp'.data : WrittenByInvite(employees'[i], email)
             /\ \A i \in EmpIds \ resp'.data : employees'[i] = employees[i]]_vars

\* A re-invitation whose mail failed was answered 201 and the record is
\* pending again.
C34_Witness ==
    /\ resp.handler = "sendEmployeeInvitation"
    /\ resp.code = 201
    /\ resp.mailed = "failed"
    /\ \E i \in resp.data : /\ employees[i].invitationStatus = "pending"
                            /\ employees[i].invitationToken > 1
                            /\ employees[i].email = "e1"
                            /\ Len(employees) = 1

\* ------------------------------------------------------------- role check
\* The decision of protect and authorize on a route, with U as the stored
\* users: TRUE when the request reaches the controller.
RoleCheck(U, tok, route) ==
    LET user == protectWith(U, tok)
    IN  user.ok /\ authorize(route.roles, user)

\* The stored users with the role on the record of user a set to r.
WithRole(a, r) == [users EXCEPT ![a].role = r]

\* C35: for every session token handed out and every protected route, the
\* decision of the role check is the same whatever role is stored on the
\* record of the token's principal.
C35_DecisionFromTokenOnly ==
    \A tok \in issued, k \in 1..Len(router), r \in UserRoles :
        (tok.id \in AdminIds /\ tok.role # "employee" /\ router[k].roles # {})
        => RoleCheck(WithRole(tok.id, r), tok, router[k]) = RoleCheck(users, tok, router[k])

\* ------------------------------------------------------------------ setup
\* Setup requests for new and for taken names and addresses, with the
\* database refusing at each step.
NextSetup ==
    \/ PostSetup
SpecSetup == Init /\ [][NextSetup]_vars

\* The admin an organization's superAdmin reference names, with its
\* organization field pointing back.
SuperAdminsOf(o) ==
    {a \in adminUsers : a.id = o.superAdmin /\ a.organization = o.id /\ a.role = "admin"}

\* C36: between setup requests every persisted organization has exactly one
\* super admin: its superAdmin reference names an admin whose organization
\* points back to it.
C36_OneSuperAdminPerOrganization ==
    \A o \in organizations :
        /\ o.superAdmin # NullId
        /\ Cardinality(SuperAdminsOf(o)) = 1

\* -------------------------------------------------------------------- age
\* Direct registrations with dates of birth before, on and after today's day
\* and month, and ages around the right one.
BirthDates == {Date(y, m, 2) : y \in {10, 11}, m \in {1, 3}}
                  \cup {Date(y, 2, d) : y \in {10, 11}, d \in 1..3}
Ages       == {JsNum(18), JsNum(19), JsNum(20), JsNum(0)}

NextAge ==
    \/ PostInvite(OrgTokens(1))
    \/ PostRegisterBorn(OrgTokens(1), {"pw1"}, BirthDates, Ages)
    \/ PostStatus(OrgTokens(1), {"active", "inactive"})
    \/ DeleteAdmin(OrgTokens(1))
SpecAge == Init /\ [][NextAge]_vars

\* The age on a day: the difference of the years, less one when this year's
\* birthday is still to come.
AgeOn(today, birth) ==
    IF birth.month > today.month \/ (birth.month = today.month /\ birth.day > today.day)
      THEN today.year - birth.year - 1
      ELSE today.year - birth.year

\* C37: a direct registration of an invited employee, all else valid, is
\* accepted when the supplied age is the age on this day and is answered 400
\* when it is not, for every date of birth.
C37_AgeMatchesDateOfBirth ==
    [][\A tok \in OrgTokens(1), i \in EmpIds, birth \in BirthDates, age \in Ages :
          /\ employees[i].invitationStatus = "pending"
          /\ employees[i].organization = 1
          /\ Serve("POST", <<"register">>, tok, NullId,
                   [email |-> employees[i].email, phone |-> "ph1",
                    emergencyContactName |-> "ec1", password |-> "pw1",
                    confirmPassword |-> "pw1", valid |-> TRUE,
                    dateOfBirth |-> birth, age |-> age])
          => IF age.n = AgeOn(Today, birth)
               THEN resp'.code = 201 /\ employees'[i].invitationStatus = "completed"
               ELSE resp'.code = 400 /\ employees'[i] = employees[i]]_vars

\* The entry the last request appended to the history of record i.
Appended(i) == employees'[i].statusHistory[Len(employees'[i].statusHistory)]

\* C38: every entry UpdateStatus, Archive or Unarchive appends to a
\* statusHistory records the status the employee had just before the
\* operation as from and the status it has just after as to.
C38_HistoryEntryMatchesStatus ==
    [][\A i \in EmpIds :
          (/\ resp'.handler \in {"updateEmployeeStatus", "archiveEmployeeByAdmin",
                                 "unarchiveEmployeeByAdmin"}
           /\ resp'.code = 200
           /\ resp'.target = i
           /\ Len(employees'[i].statusHistory) = Len(employees[i].statusHistory) + 1)
          => /\ Appended(i).from = employees[i].status
             /\ Appended(i).to = employees'[i].status]_vars

\* The admin endpoints that return employee documents.
AdminReads ==
    {"getEmployees", "getEmployee", "getEmployeesByStatus", "getEmployeesForAdmin",
     "updateEmployeeByAdmin"}

\* C39: no answer of an admin read or list endpoint carries the password
\* hash or the invitation secret of an employee it returns.
C39_NoSecretsInAdminReads ==
    (resp.handler \in AdminReads /\ resp.code = 200)
    => \A i \in resp.data : Disclosed(employees[i], select(resp.handler)) = {}

====
